---- MODULE Spec2Model ----
(***************************************************************************)
(* Model of the table export operator PhysicalExport                       *)
(* (src/src/executor/operator/physical_export.cpp).                        *)
(*                                                                         *)
(* One export request is carried out over an immutable table snapshot:     *)
(* Execute dispatches on file_type_ to one of the four sinks; every sink   *)
(* walks segments (ascending key), blocks (declared order) and rows        *)
(* (ascending), filters by the segment's DeleteFilter, consumes the        *)
(* offset budget, writes the surviving rows, rotates the output file on    *)
(* the per-file row limit and leaves all loops on the total row limit.     *)
(*                                                                         *)
(* A row is named <<segment_id, block_idx, row_idx>>.  An output file is   *)
(* named by its suffix: <<>> is file_path_, <<N>> is file_path_.partN.     *)
(* The variables examined, materialized and visited record the scan's      *)
(* history (calls of the visibility predicate, blocks whose column vectors *)
(* were fetched, segments whose DeleteFilter was built).                   *)
(*                                                                         *)
(* Spec is the fault-free environment: directory creation, file opens and  *)
(* writer calls succeed, column vectors have the block's length and the    *)
(* column configuration is one the sink accepts.  Its initial states are   *)
(* every request (sink, offset_, limit_, row_limit_) within the bounds     *)
(* over every snapshot of the shapes in Shapes: every row count per block  *)
(* and every visibility of every row.                                      *)
(*                                                                         *)
(* SpecFault adds the error paths: every call whose status the sinks test  *)
(* may fail, a physical column's vector may have any size, the encoding    *)
(* may be one Execute does not handle, and the table and column list vary  *)
(* (configurations ExportToFVECS rejects, virtual selectors).  An error    *)
(* raised (fault) leaves the sink and Execute; pc is then "failed".        *)
(*                                                                         *)
(* SpecLower applies the two lowering functions GetArrowType and           *)
(* BuildArrowArray to every column definition in ColumnDefs (every logical *)
(* type; every element type, index type and dimension where the type has   *)
(* them) and keeps the results in arrow_type and array_builder.            *)
(*                                                                         *)
(* SpecContent is SpecFault over tables with stored values: every file     *)
(* carries in bytes what was appended to it (header, lines, records,       *)
(* dimension and element bytes, schema and batches), looked_up records the *)
(* subscripts handed to column_defs, and an out-of-bounds catalog read or  *)
(* a null builder dereference may end the process (pc "crashed") or go on  *)
(* with an undefined definition.  directories holds the directories the    *)
(* export has created.                                                     *)
(*                                                                         *)
(* SpecColumnar is ExportToPARQUET alone, over the requests and snapshots  *)
(* of Spec: the record batches of consume_block and the deferred switch to *)
(* the next part file.                                                     *)
(*                                                                         *)
(* SpecRerun calls Execute a second time on the same operator              *)
(* (ExecuteAgain); previous keeps what the first call left (files, row     *)
(* count, result message, scan) for the comparison with the second.        *)
(*                                                                         *)
(* SpecLive is the export with its error paths under weak fairness of the  *)
(* next-state action: the thread that runs Execute keeps executing while   *)
(* a statement remains.                                                    *)
(*                                                                         *)
(* SpecPersist is the PersistResultHandler                                 *)
(* (src/src/storage/persistence/persist_result_handler.cpp): a write or    *)
(* read result is handed to HandleWriteResult or HandleReadResult;         *)
(* persisted holds the object files, handled what the call did.            *)
(***************************************************************************)
EXTENDS Integers, Sequences, FiniteSets, TLC

\* ---------------------------------------------------------------- bounds
\* Rows per block range over 0..MaxBlockRows (the block capacity, scaled).
MaxBlockRows == 2
\* offset_ ranges over 0..MaxOffset.
MaxOffset == 1
\* limit_ ranges over 0..MaxLimit (0 = unbounded).
MaxLimit == 2
\* row_limit_ ranges over 0..MaxRowLimit (0 = no splitting).
MaxRowLimit == 2

\* The snapshot's shapes, as the number of blocks of each segment id: one
\* segment of two blocks, or two segments of one block each.
Shapes == { (1 :> 2), (1 :> 1) @@ (3 :> 1) }

FileTypes == {"kCSV", "kJSONL", "kFVECS", "kPARQUET"}
RowSinks == {"kCSV", "kJSONL", "kFVECS"}

VARIABLES
    \* the export request descriptor, the table's column definitions and the
    \* table snapshot (members)
    file_type_, offset_, limit_, row_limit_, column_idx_array_, column_defs, block_index_,
    \* the text encoding's options (members)
    header_, delimiter_,
    \* the position of the running export
    pc, segment_it, block_idx, row_idx,
    \* the sink's locals; column_vectors holds the Size() of each vector
    offset, row_count, file_no_, switch_to_new_file, column_vectors,
    \* the file system: the output files in creation order
    files,
    \* the scan's history, the sinks Execute has called and the subscripts
    \* column_defs was read at
    examined, materialized, visited, called, looked_up,
    \* the directories the export has created
    directories,
    \* Execute's local, the operator state and the error the caller receives
    exported_row_count, result_msg_, complete, fault,
    \* a column definition and what GetArrowType and BuildArrowArray yield
    \* for it when called on their own
    lowered_column, arrow_type, array_builder,
    \* what the earlier Execute calls on this operator left: their files,
    \* row count and scan
    previous,
    \* the persistence manager's object files, the result handed to
    \* PersistResultHandler and what the handler did with it
    persisted, result, handled

request ==
    <<file_type_, offset_, limit_, row_limit_, column_idx_array_, column_defs, block_index_,
      header_, delimiter_>>
position == <<pc, segment_it, block_idx, row_idx>>
counters == <<offset, row_count, file_no_, switch_to_new_file>>
locals == <<counters, column_vectors>>
scanned == <<examined, materialized, visited>>
history == <<scanned, called, looked_up, directories>>
opstate == <<exported_row_count, result_msg_, complete, fault>>
lowering == <<lowered_column, arrow_type, array_builder>>
persistence == <<persisted, result, handled>>
\* what a step of the export leaves alone
aside == <<lowering, previous, persistence>>
vars == <<request, position, locals, files, history, opstate, lowering, previous, persistence>>

\* -------------------------------------------------------------- columns
\* The virtual column selectors (values outside every catalog).
COLUMN_IDENTIFIER_ROW_ID == -1
COLUMN_IDENTIFIER_CREATE == -2
COLUMN_IDENTIFIER_DELETE == -3

VirtualColumns == {COLUMN_IDENTIFIER_ROW_ID, COLUMN_IDENTIFIER_CREATE, COLUMN_IDENTIFIER_DELETE}

\* A column definition: its name, its logical type and the type info: the
\* element type and the dimension of a vector or sparse column, and the
\* index type of a sparse column.
ColumnDef(name, type, elem, index, dim) ==
    [name |-> name, type |-> type, elem |-> elem, index |-> index, dim |-> dim]

Scalar(name, type) == ColumnDef(name, type, "none", "none", 0)

FloatEmbedding == ColumnDef("vec", "kEmbedding", "kElemFloat", "none", 2)
Int8Embedding == ColumnDef("vec", "kEmbedding", "kElemInt8", "none", 2)
IntegerColumn == Scalar("id", "kInteger")

\* Fault variant of SelectColumns: the catalog's columns in reverse order.
SelectColumns_CatalogReversed ==
    IF column_idx_array_ = <<>>
    THEN [i \in 1 .. Len(column_defs) |-> Len(column_defs) - i]
    ELSE column_idx_array_

\* select_columns: an empty column_idx_array_ selects every catalog
\* column, in catalog order.
SelectColumns ==
    IF column_idx_array_ = <<>>
    THEN [i \in 1 .. Len(column_defs) |-> i - 1]
    ELSE column_idx_array_

\* The columns a sink materializes per block: ExportToFVECS fetches
\* column_idx_array_[0] only.
BlockColumns == IF file_type_ = "kFVECS" THEN <<column_idx_array_[1]>> ELSE SelectColumns

NoFault == [kind |-> "none", at |-> "none"]

\* --------------------------------------------------- columnar lowering
\* The logical types of the switch in GetArrowType and BuildArrowArray.
ScalarTypes ==
    ("kBoolean" :> "boolean") @@ ("kTinyInt" :> "int8") @@ ("kSmallInt" :> "int16")
    @@ ("kInteger" :> "int32") @@ ("kBigInt" :> "int64") @@ ("kFloat16" :> "float16")
    @@ ("kBFloat16" :> "float32") @@ ("kFloat" :> "float32") @@ ("kDouble" :> "float64")
    @@ ("kDate" :> "date32") @@ ("kTime" :> "time32[s]") @@ ("kDateTime" :> "timestamp[s]")
    @@ ("kTimestamp" :> "timestamp[s]") @@ ("kVarchar" :> "utf8")

VectorTypes == {"kEmbedding", "kMultiVector", "kTensor", "kTensorArray"}

NonExportableTypes ==
    {"kRowID", "kInterval", "kHugeInt", "kDecimal", "kArray", "kTuple", "kPoint", "kLine",
     "kLineSeg", "kBox", "kCircle", "kUuid", "kMixed", "kNull", "kMissing", "kEmptyArray",
     "kInvalid"}

\* EmbeddingDataType: the element types a vector or sparse column can have,
\* and the index types of a sparse column.
ElementTypes ==
    {"kElemBit", "kElemInt8", "kElemInt16", "kElemInt32", "kElemInt64", "kElemFloat",
     "kElemDouble", "kElemUInt8", "kElemFloat16", "kElemBFloat16"}

IndexTypes == {"kElemInt8", "kElemInt16", "kElemInt32", "kElemInt64"}

\* Physical (arrow) types.
Arrow(kind) == [kind |-> kind]

ArrowList(value_type) == [kind |-> "list", value_type |-> value_type]

FixedSizeList(value_type, list_size) ==
    [kind |-> "fixed_size_list", value_type |-> value_type, list_size |-> list_size]

Field(name, type) == [name |-> name, type |-> type]

Struct(fields) == [kind |-> "struct", fields |-> fields]

nullptr == Arrow("nullptr")

\* What a type lowering yields: a type, or an UnrecoverableError raised;
\* undefined is set when the statements executed have no defined behaviour.
Lowered(type) == [fault |-> "none", undefined |-> FALSE, type |-> type]

Unrecoverable(message) ==
    [fault |-> "unrecoverable", undefined |-> FALSE, type |-> nullptr, message |-> message]

Crashed(message) ==
    [fault |-> "crash", undefined |-> TRUE, type |-> nullptr, message |-> message]

NotCalled == [fault |-> "none", undefined |-> FALSE, type |-> Arrow("not called")]

Undefined(message) ==
    [fault |-> "none", undefined |-> TRUE, type |-> Arrow("undefined"), message |-> message]

\* Fault variant of ElementType: a BFloat16 element is lowered to the
\* half-float type.
ElementType_BFloatAsHalf(elem) ==
    CASE elem = "kElemBit" -> Arrow("boolean")
      [] elem = "kElemInt8" -> Arrow("int8")
      [] elem = "kElemInt16" -> Arrow("int16")
      [] elem = "kElemInt32" -> Arrow("int32")
      [] elem = "kElemInt64" -> Arrow("int64")
      [] elem = "kElemFloat" -> Arrow("float32")
      [] elem = "kElemDouble" -> Arrow("float64")
      [] elem = "kElemUInt8" -> Arrow("uint8")
      [] elem = "kElemFloat16" -> Arrow("float16")
      [] elem = "kElemBFloat16" -> Arrow("float16")
      [] OTHER -> nullptr

\* switch (embedding_info->Type()) / switch (sparse_info->DataType()): the
\* physical type of an element (the type of the element's builder).
ElementType(elem) ==
    CASE elem = "kElemBit" -> Arrow("boolean")
      [] elem = "kElemInt8" -> Arrow("int8")
      [] elem = "kElemInt16" -> Arrow("int16")
      [] elem = "kElemInt32" -> Arrow("int32")
      [] elem = "kElemInt64" -> Arrow("int64")
      [] elem = "kElemFloat" -> Arrow("float32")
      [] elem = "kElemDouble" -> Arrow("float64")
      [] elem = "kElemUInt8" -> Arrow("uint8")
      [] elem = "kElemFloat16" -> Arrow("float16")
      [] elem = "kElemBFloat16" -> Arrow("float32")
      [] OTHER -> nullptr

\* switch (sparse_info->IndexType())
SparseIndexType(index) ==
    IF index \in IndexTypes THEN ArrowList(ElementType(index)) ELSE nullptr

\* Fault variant of VectorArrowType: a tensor is not wrapped.
VectorArrowType_FlatTensor(type, arrow_embedding_type) ==
    IF type \in {"kEmbedding", "kTensor"} THEN Lowered(arrow_embedding_type)
    ELSE IF type = "kMultiVector" THEN Lowered(ArrowList(arrow_embedding_type))
    ELSE IF type = "kTensorArray" THEN Lowered(ArrowList(ArrowList(arrow_embedding_type)))
    ELSE Unrecoverable("Unreachable code!")

\* The wrapping of the fixed size list by the logical type of the vector
\* family.
VectorArrowType(type, arrow_embedding_type) ==
    IF type = "kEmbedding" THEN Lowered(arrow_embedding_type)
    ELSE IF type \in {"kTensor", "kMultiVector"} THEN Lowered(ArrowList(arrow_embedding_type))
    ELSE IF type = "kTensorArray" THEN Lowered(ArrowList(ArrowList(arrow_embedding_type)))
    ELSE Unrecoverable("Unreachable code!")

\* Fault variant of GetArrowType: a row-id column is lowered to int64.
GetArrowType_RowIdAsInt(column_def) ==
    CASE column_def.type \in DOMAIN ScalarTypes -> Lowered(Arrow(ScalarTypes[column_def.type]))
      [] column_def.type = "kSparse" ->
            IF SparseIndexType(column_def.index) = nullptr THEN Unrecoverable("Index type invalid")
            ELSE IF column_def.elem \notin ElementTypes THEN Unrecoverable("Data type invalid")
            ELSE Lowered(Struct(<<Field("index", SparseIndexType(column_def.index))>>
                                \o (IF column_def.elem = "kElemBit" THEN <<>>
                                    ELSE <<Field("value", ArrowList(ElementType(column_def.elem)))>>)))
      [] column_def.type \in VectorTypes ->
            IF column_def.elem \notin ElementTypes
            THEN Unrecoverable("Invalid case EmbeddingDataType::kElemInvalid")
            ELSE VectorArrowType(column_def.type,
                                 FixedSizeList(ElementType(column_def.elem), column_def.dim))
      [] column_def.type = "kRowID" -> Lowered(Arrow("int64"))
      [] column_def.type \in NonExportableTypes -> Unrecoverable("Invalid data type")
      [] OTHER -> Lowered(nullptr)

\* GetArrowType(column_def): the physical type of a schema field.
GetArrowType(column_def) ==
    CASE column_def.type \in DOMAIN ScalarTypes -> Lowered(Arrow(ScalarTypes[column_def.type]))
      [] column_def.type = "kSparse" ->
            IF SparseIndexType(column_def.index) = nullptr THEN Unrecoverable("Index type invalid")
            ELSE IF column_def.elem \notin ElementTypes THEN Unrecoverable("Data type invalid")
            ELSE Lowered(Struct(<<Field("index", SparseIndexType(column_def.index))>>
                                \o (IF column_def.elem = "kElemBit" THEN <<>>
                                    ELSE <<Field("value", ArrowList(ElementType(column_def.elem)))>>)))
      [] column_def.type \in VectorTypes ->
            IF column_def.elem \notin ElementTypes
            THEN Unrecoverable("Invalid case EmbeddingDataType::kElemInvalid")
            ELSE VectorArrowType(column_def.type,
                                 FixedSizeList(ElementType(column_def.elem), column_def.dim))
      [] column_def.type \in NonExportableTypes -> Unrecoverable("Invalid data type")
      [] OTHER -> Lowered(nullptr)

\* The scalar builders of BuildArrowArray, as the type of the arrays they
\* build: BooleanBuilder, Int8Builder, Int16Builder, Int32Builder,
\* Int64Builder, FloatBuilder, DoubleBuilder, HalfFloatBuilder, FloatBuilder
\* (kBFloat16), Date32Builder, Time32Builder(time32(SECOND)),
\* TimestampBuilder(timestamp(SECOND)) and StringBuilder.
ScalarBuilders ==
    ("kBoolean" :> "boolean") @@ ("kTinyInt" :> "int8") @@ ("kSmallInt" :> "int16")
    @@ ("kInteger" :> "int32") @@ ("kBigInt" :> "int64") @@ ("kFloat" :> "float32")
    @@ ("kDouble" :> "float64") @@ ("kFloat16" :> "float16") @@ ("kBFloat16" :> "float32")
    @@ ("kDate" :> "date32") @@ ("kTime" :> "time32[s]") @@ ("kDateTime" :> "timestamp[s]")
    @@ ("kTimestamp" :> "timestamp[s]") @@ ("kVarchar" :> "utf8")

\* Fault variant of ElementBuilder: an unsigned 8-bit element gets the
\* signed builder.
ElementBuilder_UInt8AsInt8(elem) ==
    CASE elem = "kElemBit" -> Arrow("boolean")
      [] elem = "kElemInt8" -> Arrow("int8")
      [] elem = "kElemInt16" -> Arrow("int16")
      [] elem = "kElemInt32" -> Arrow("int32")
      [] elem = "kElemInt64" -> Arrow("int64")
      [] elem = "kElemFloat" -> Arrow("float32")
      [] elem = "kElemDouble" -> Arrow("float64")
      [] elem = "kElemUInt8" -> Arrow("int8")
      [] elem = "kElemFloat16" -> Arrow("float16")
      [] elem = "kElemBFloat16" -> Arrow("float32")
      [] OTHER -> nullptr

\* The element builder of BuildArrowArray's switch on the element type, as
\* the type of the arrays it builds: BooleanBuilder, Int8Builder,
\* Int16Builder, Int32Builder, Int64Builder, FloatBuilder, DoubleBuilder,
\* UInt8Builder, HalfFloatBuilder and FloatBuilder (kElemBFloat16).
ElementBuilder(elem) ==
    CASE elem = "kElemBit" -> Arrow("boolean")
      [] elem = "kElemInt8" -> Arrow("int8")
      [] elem = "kElemInt16" -> Arrow("int16")
      [] elem = "kElemInt32" -> Arrow("int32")
      [] elem = "kElemInt64" -> Arrow("int64")
      [] elem = "kElemFloat" -> Arrow("float32")
      [] elem = "kElemDouble" -> Arrow("float64")
      [] elem = "kElemUInt8" -> Arrow("uint8")
      [] elem = "kElemFloat16" -> Arrow("float16")
      [] elem = "kElemBFloat16" -> Arrow("float32")
      [] OTHER -> nullptr

\* The builder BuildArrowArray constructs for a column, as the type of the
\* arrays it builds.  For a sparse column the structure type is declared
\* from index_builder->type() and value_builder->type(), and value_builder
\* is null when the element type is kElemBit.
ArrayBuilder(column_def) ==
    CASE column_def.type \in DOMAIN ScalarBuilders ->
            Lowered(Arrow(ScalarBuilders[column_def.type]))
      [] column_def.type = "kSparse" ->
            IF SparseIndexType(column_def.index) = nullptr THEN Unrecoverable("Invalid index type.")
            ELSE IF column_def.elem \notin ElementTypes THEN Unrecoverable("Invalid data type.")
            ELSE IF column_def.elem = "kElemBit" THEN Undefined("value_builder->type()")
            ELSE Lowered(Struct(<<Field("index", SparseIndexType(column_def.index)),
                                  Field("value", ArrowList(ElementBuilder(column_def.elem)))>>))
      [] column_def.type \in VectorTypes ->
            IF column_def.elem \notin ElementTypes
            THEN Unrecoverable("Invalid embedding data type: EmbeddingDataType::kElemInvalid")
            ELSE VectorArrowType(column_def.type,
                                 FixedSizeList(ElementBuilder(column_def.elem), column_def.dim))
      [] column_def.type \in NonExportableTypes -> Unrecoverable("Invalid data type")
      [] OTHER -> Lowered(nullptr)

\* ------------------------------------------------------------- snapshot
\* The block entries of a segment with row counts rc: block b (1-based in
\* block_map_) has block_id b-1 and starts at segment offset
\* block_id * capacity.
BlockMap(rc) ==
    [b \in DOMAIN rc |->
        [block_id |-> b - 1, row_count |-> rc[b], segment_offset |-> (b - 1) * MaxBlockRows]]

\* The segment offsets that hold a row.
RowOffsets(rc) ==
    UNION { { (b - 1) * MaxBlockRows + r : r \in 0 .. rc[b] - 1 } : b \in DOMAIN rc }

\* Segment snapshots with c blocks: every row count, every visibility.
SegmentSnapshots(c) ==
    UNION { { [block_map_ |-> BlockMap(rc), visible |-> v] : v \in SUBSET RowOffsets(rc) }
            : rc \in [1 .. c -> 0 .. MaxBlockRows] }

Snapshots ==
    UNION { { f \in [DOMAIN sh -> UNION { SegmentSnapshots(sh[s]) : s \in DOMAIN sh }] :
                \A s \in DOMAIN sh : Len(f[s].block_map_) = sh[s] }
            : sh \in Shapes }

\* ------------------------------------------------------ scan primitives
\* Fault variant of SegmentOrder: the keys in descending order.
SegmentOrder_Descending(ids) ==
    CHOOSE q \in [1 .. Cardinality(ids) -> ids] :
        \A i, j \in 1 .. Cardinality(ids) : i < j => q[i] > q[j]

\* The segment loop's order: std::map iterates its keys in ascending order.
SegmentOrder(ids) ==
    CHOOSE q \in [1 .. Cardinality(ids) -> ids] :
        \A i, j \in 1 .. Cardinality(ids) : i < j => q[i] < q[j]

\* The block entry the block loop is at.
BlockEntry(segment_id, idx) == block_index_[segment_id].block_map_[idx + 1]

\* Fault variant of FilterPos: the block's segment offset is left out.
FilterPos_RowOnly(seg_off, idx) == idx

\* The argument handed to the visibility predicate: seg_off + row_idx.
FilterPos(seg_off, idx) == seg_off + idx

\* DeleteFilter::operator(): the segment's opaque visibility predicate.
visible(segment_id, pos) == pos \in block_index_[segment_id].visible

\* Fault variant of RowDisposition: the offset test before the visibility
\* test.
RowDisposition_OffsetFirst(vis, off) ==
    IF off > 0 THEN "offset" ELSE IF ~vis THEN "invisible" ELSE "emit"

\* What the row loop does with a row: skip it as invisible, spend one unit
\* of the offset budget on it, or emit it.
RowDisposition(vis, off) ==
    IF ~vis THEN "invisible" ELSE IF off > 0 THEN "offset" ELSE "emit"

\* Fault variants of NeedNewFile: a new file for every row past the first
\* row_limit_ rows; and a per-file limit of 0 that splits.
NeedNewFile_EveryRow(rc) == rc > 0 /\ row_limit_ # 0 /\ rc >= row_limit_

NeedNewFile_ZeroSplits(rc) == rc > 0 /\ (row_limit_ = 0 \/ (rc % row_limit_) = 0)

\* The rotation test of the row-at-a-time sinks, on the rows written so far.
NeedNewFile(rc) == rc > 0 /\ row_limit_ # 0 /\ (rc % row_limit_) = 0

\* Fault variant of NextFileNo: the counter is not advanced.
NextFileNo_Stuck(n) == n

\* ++file_no_
NextFileNo(n) == n + 1

\* Fault variant of LimitReached: one row late.
LimitReached_OffByOne(rc) == limit_ # 0 /\ rc = limit_ + 1

\* The total row limit test of the row-at-a-time sinks.
LimitReached(rc) == limit_ # 0 /\ rc = limit_

\* ----------------------------------------------------------- table data
\* The rows of a block at full capacity.
DEFAULT_BLOCK_CAPACITY == MaxBlockRows

\* The rows of the first n blocks of a segment, and of a set of segments.
RECURSIVE RowsOfBlocks(_, _)
RowsOfBlocks(block_map, n) ==
    IF n = 0 THEN 0 ELSE block_map[n].row_count + RowsOfBlocks(block_map, n - 1)

RECURSIVE RowsOfSegments(_)
RowsOfSegments(ids) ==
    IF ids = {} THEN 0
    ELSE LET s == CHOOSE id \in ids : TRUE
         IN  RowsOfBlocks(block_index_[s].block_map_, Len(block_index_[s].block_map_))
             + RowsOfSegments(ids \ {s})

\* The stored rows are numbered for their content: 1, 2, 3, ... in the
\* order of segments, blocks and rows.
RowNumber(row) ==
    RowsOfSegments({ id \in DOMAIN block_index_ : id < row[1] })
    + RowsOfBlocks(block_index_[row[1]].block_map_, row[2]) + row[3] + 1

Letters ==
    <<"a", "b", "c", "d", "e", "f", "g", "h", "i", "j", "k", "l", "m", "n", "o", "p", "q", "r",
      "s", "t", "u", "v", "w", "x", "y", "z">>

RECURSIVE Numbers(_, _)
Numbers(first, count) ==
    IF count = 0 THEN ""
    ELSE ToString(first) \o (IF count = 1 THEN "" ELSE "," \o Numbers(first + 1, count - 1))

\* The value a physical column stores at a row, as the pieces of its text
\* form (a newline is a piece of its own): row n holds the number n, the
\* n-th letter, a text with the delimiter and a newline in it, the vector
\* [n,n+1,..] or the sparse vector [n:1].
StoredPieces(column_def, row) ==
    CASE column_def.type = "kVarchar" ->
            IF column_def.name = "name" THEN <<Letters[RowNumber(row)]>>
            ELSE <<Letters[RowNumber(row)], ",", "|", "\n", "\"">>
      [] column_def.type \in VectorTypes ->
            <<"[", Numbers(RowNumber(row), column_def.dim), "]">>
      [] column_def.type = "kSparse" -> <<"[", ToString(RowNumber(row)), ":1]">>
      [] OTHER -> <<ToString(RowNumber(row))>>

RECURSIVE Text(_)
Text(pieces) == IF pieces = <<>> THEN "" ELSE Head(pieces) \o Text(Tail(pieces))

\* Value::ToString() of the value a physical column stores at a row.
StoredText(column_def, row) == Text(StoredPieces(column_def, row))

\* Value::GetEmbedding(): the raw bytes of a float vector, four per element.
GetEmbedding(column_def, row) ==
    [k \in 1 .. 4 * column_def.dim |-> (RowNumber(row) + k) % 256]

\* sizeof(dimension) bytes of an i32, in the byte order of the build.
Int32Bytes(dimension) ==
    <<dimension % 256, (dimension \div 256) % 256, (dimension \div 65536) % 256,
      (dimension \div 16777216) % 256>>

\* Fault variant of SegmentOffsetOf: the block id is not scaled.
SegmentOffsetOf_BlockId(block_id) == block_id

\* u32 segment_offset = block_id * DEFAULT_BLOCK_CAPACITY
SegmentOffsetOf(block_id) == block_id * DEFAULT_BLOCK_CAPACITY

RowID(segment_id, segment_offset) == <<segment_id, segment_offset>>

\* ColumnVector::AppendWith(from, count): count consecutive row
\* identifiers, the first one being from.
AppendWith(from, count) == [i \in 1 .. count |-> RowID(from[1], from[2] + i - 1)]

\* Value::ToString() of a row identifier.
RowIDText(row_id) == ToString(row_id[1]) \o ":" \o ToString(row_id[2])

\* The catalog entry column_defs[column_id].  The subscript of a virtual
\* selector is outside the list: what is read then is not defined, and
\* stands here as a definition of that name.
ColumnDefAt(column_id) ==
    IF column_id \in 0 .. Len(column_defs) - 1
    THEN column_defs[column_id + 1]
    ELSE ColumnDef("undefined", "undefined", "undefined", "undefined", 1)

\* column_vectors[i].GetValue(row_idx) for the selector select_column_idx:
\* the value's logical type and its text form.  The row-id vector is the
\* one the block's materialization builds, the timestamps are stored ones.
GetValue(select_column_idx, row) ==
    CASE select_column_idx = COLUMN_IDENTIFIER_ROW_ID ->
            LET block_entry == BlockEntry(row[1], row[2])
                column_vector ==
                    AppendWith(RowID(row[1], SegmentOffsetOf(block_entry.block_id)),
                               block_entry.row_count)
            IN  [type |-> "kRowID", text |-> RowIDText(column_vector[row[3] + 1])]
      [] select_column_idx = COLUMN_IDENTIFIER_CREATE -> [type |-> "kBigInt", text |-> "1"]
      [] select_column_idx = COLUMN_IDENTIFIER_DELETE -> [type |-> "kBigInt", text |-> "0"]
      [] OTHER ->
            [type |-> ColumnDefAt(select_column_idx).type,
             text |-> StoredText(ColumnDefAt(select_column_idx), row)]

\* -------------------------------------------------------- serialisation
\* The name a selector is written under (the header of ExportToCSV, the keys
\* of ExportToJSONL): the switch on the selector, whose default label reads
\* the catalog.
SelectedName(column_idx) ==
    CASE column_idx = COLUMN_IDENTIFIER_ROW_ID -> "_row_id"
      [] column_idx = COLUMN_IDENTIFIER_CREATE -> "_create_timestamp"
      [] column_idx = COLUMN_IDENTIFIER_DELETE -> "_delete_timestamp"
      [] OTHER -> ColumnDefAt(column_idx).name

\* Fault variant of Terminator: the newline after every field.
Terminator_AlwaysNewline(i, count) == "\n"

\* After the i-th of count fields: the delimiter, the newline after the last.
Terminator(i, count) == IF i # count THEN delimiter_ ELSE "\n"

\* The header line, from its i-th name on.
RECURSIVE HeaderFrom(_)
HeaderFrom(i) ==
    IF i > Len(SelectColumns) THEN ""
    ELSE SelectedName(SelectColumns[i]) \o Terminator(i, Len(SelectColumns)) \o HeaderFrom(i + 1)

\* The logical types of the first label of the switch on the value's type.
QuotedTypes == {"kEmbedding", "kMultiVector", "kTensor", "kTensorArray", "kSparse"}

\* Fault variant of CsvField: a text is quoted too.
CsvField_QuoteText(v) ==
    IF v.type \in QuotedTypes \cup {"kVarchar"} THEN "\"" \o v.text \o "\"" ELSE v.text

\* switch (v.type().type()): "\"" + v.ToString() + "\"", or v.ToString().
CsvField(v) == IF v.type \in QuotedTypes THEN "\"" \o v.text \o "\"" ELSE v.text

\* The line of a row, from its i-th field on.
RECURSIVE LineFrom(_, _)
LineFrom(row, i) ==
    IF i > Len(SelectColumns) THEN ""
    ELSE CsvField(GetValue(SelectColumns[i], row)) \o Terminator(i, Len(SelectColumns))
         \o LineFrom(row, i + 1)

\* line_json after the loop over the selected columns: the values under
\* their names, in the order attached.
LineJson(row) ==
    [i \in 1 .. Len(SelectColumns) |->
        [key |-> SelectedName(SelectColumns[i]), value |-> GetValue(SelectColumns[i], row).text]]

\* The schema of ExportToPARQUET: one field per selected column, named by
\* the catalog entry read at the selector.
Schema ==
    [i \in 1 .. Len(SelectColumns) |->
        Field(ColumnDefAt(SelectColumns[i]).name, GetArrowType(ColumnDefAt(SelectColumns[i])).type)]

\* The arrays of a record batch: per selected column, the array its builder
\* finishes after the values of the batch's rows are appended.
BlockArrays(batch) ==
    [i \in 1 .. Len(SelectColumns) |->
        [type |-> ArrayBuilder(ColumnDefAt(SelectColumns[i])).type,
         values |-> [k \in 1 .. Len(batch) |-> GetValue(SelectColumns[i], batch[k]).text]]]

\* Fault variant of Records: the dimension is not written.
Records_NoDimension(batch) ==
    CASE file_type_ = "kCSV" -> <<LineFrom(batch[1], 1)>>
      [] file_type_ = "kJSONL" -> <<[json |-> LineJson(batch[1]), end |-> "\n"]>>
      [] file_type_ = "kFVECS" -> <<GetEmbedding(ColumnDefAt(column_idx_array_[1]), batch[1])>>
      [] OTHER -> <<[columns |-> BlockArrays(batch)]>>

\* What the sink appends to its file for the rows of one write, one entry
\* per call of Append (of WriteRecordBatch).
Records(batch) ==
    CASE file_type_ = "kCSV" -> <<LineFrom(batch[1], 1)>>
      [] file_type_ = "kJSONL" -> <<[json |-> LineJson(batch[1]), end |-> "\n"]>>
      [] file_type_ = "kFVECS" ->
            <<Int32Bytes(ColumnDefAt(column_idx_array_[1]).dim),
              GetEmbedding(ColumnDefAt(column_idx_array_[1]), batch[1])>>
      [] OTHER -> <<[columns |-> BlockArrays(batch)]>>

\* ---------------------------------------------------------------- files
\* Fault variant of OpenFile: every file opened gets the header line.
OpenFile_HeaderEverywhere(fs, name) ==
    Append(fs, [name |-> name, open |-> TRUE, writes |-> <<>>,
                bytes |-> IF header_ THEN <<HeaderFrom(1)>> ELSE <<>>])

\* A file: its name, whether a handle holds it open, the rows of each write
\* and what the writes appended.
OpenFile(fs, name) ==
    Append(fs, [name |-> name, open |-> TRUE, writes |-> <<>>, bytes |-> <<>>])

AppendBytes(fs, appended) == [fs EXCEPT ![Len(fs)].bytes = @ \o appended]

\* Fault variant of CloseCurrent: the file stays open.
CloseCurrent_Noop(fs) == fs

\* The current handle or writer is the one of the file created last.
CloseCurrent(fs) == [fs EXCEPT ![Len(fs)].open = FALSE]

WriteCurrent(fs, batch) ==
    AppendBytes([fs EXCEPT ![Len(fs)].writes = Append(@, batch)], Records(batch))

\* The byte sequence of a file is the concatenation of its writes.
RECURSIVE Flatten(_)
Flatten(ws) == IF ws = <<>> THEN <<>> ELSE Head(ws) \o Flatten(Tail(ws))

FileRows(f) == Flatten(f.writes)

\* ----------------------------------------------------------------- Init
\* No result has been handed to the PersistResultHandler.
NoResult == [kind |-> "none"]

\* What a call hands back when it returns no value (void, or an error raised).
Nothing == [returned |-> FALSE]

NotHandled == [fault |-> "none", returned |-> Nothing, called |-> FALSE]

HandlerIdle ==
    /\ persisted = {}
    /\ result = NoResult
    /\ handled = NotHandled

\* The state of the operator before Execute runs.
InitRun ==
    /\ pc = "execute"
    /\ segment_it = 1
    /\ block_idx = 0
    /\ row_idx = 0
    /\ offset = 0
    /\ row_count = 0
    /\ file_no_ = 0
    /\ switch_to_new_file = FALSE
    /\ column_vectors = <<>>
    /\ files = <<>>
    /\ examined = <<>>
    /\ materialized = <<>>
    /\ visited = <<>>
    /\ called = <<>>
    /\ directories = {}
    /\ looked_up = {}
    /\ exported_row_count = 0
    /\ result_msg_ = <<>>
    /\ complete = FALSE
    /\ fault = NoFault
    /\ arrow_type = NotCalled
    /\ array_builder = NotCalled
    /\ previous = <<>>

\* Every request within the bounds over every snapshot, on a table of one
\* float embedding column selected explicitly (accepted by all four sinks).
Init ==
    /\ file_type_ \in FileTypes
    /\ offset_ \in 0 .. MaxOffset
    /\ limit_ \in 0 .. MaxLimit
    /\ row_limit_ \in 0 .. MaxRowLimit
    /\ column_idx_array_ = <<0>>
    /\ column_defs = <<FloatEmbedding>>
    /\ block_index_ \in Snapshots
    /\ header_ = FALSE
    /\ delimiter_ = ","
    /\ lowered_column = FloatEmbedding
    /\ InitRun
    /\ HandlerIdle

\* ------------------------------------------------------- loop control
\* A position of the nested loops: pc names the loop whose body runs next.
Pos(p, s, b, r) == [pc |-> p, segment_it |-> s, block_idx |-> b, row_idx |-> r]

Goto(p) ==
    /\ pc' = p.pc
    /\ segment_it' = p.segment_it
    /\ block_idx' = p.block_idx
    /\ row_idx' = p.row_idx

SegmentCount == Cardinality(DOMAIN block_index_)

SegmentAt(s) == SegmentOrder(DOMAIN block_index_)[s]

BlockCount(s) == Len(block_index_[SegmentAt(s)].block_map_)

\* The segment loop's test for its s-th pass; label_return follows the loop.
SegmentLoopAt(s) ==
    IF s <= SegmentCount THEN Pos("segment_loop", s, 0, 0) ELSE Pos("label_return", s, 0, 0)

\* The block loop's test for block b of the s-th segment.
BlockLoopAt(s, b) ==
    IF b < BlockCount(s) THEN Pos("block_loop", s, b, 0) ELSE SegmentLoopAt(s + 1)

\* The row loop's test (the outer loop's test in consume_block) for row r.
RowLoopAt(p, s, b, r) ==
    IF r < BlockEntry(SegmentAt(s), b).row_count THEN Pos(p, s, b, r) ELSE BlockLoopAt(s, b + 1)

\* --------------------------------------------------------------- faults
\* Fault variant of ReleaseHandles: the handles are leaked.
ReleaseHandles_Leak(fs) == fs

\* The file handle, the output stream and the writer are scoped locals of
\* the sink: leaving the sink by a raised error closes every file it holds.
ReleaseHandles(fs) == [i \in DOMAIN fs |-> [fs[i] EXCEPT !.open = FALSE]]

\* RecoverableError / UnrecoverableError: the error leaves the sink and
\* Execute and reaches the caller; fs are the files at the raise.
Raise(kind, at, fs) ==
    /\ fault' = [kind |-> kind, at |-> at]
    /\ files' = ReleaseHandles(fs)
    /\ pc' = "failed"
    /\ UNCHANGED <<segment_it, block_idx, row_idx, exported_row_count, result_msg_, complete>>

\* The calls that fail by the environment (status not ok).
EnvSteps == {"MakeDirectory", "Open", "OpenStream", "OpenWriter", "Close", "WriteRecordBatch"}

\* The configuration tests whose outcome is not defined when the catalog
\* is read outside its bounds.
UndefinedSteps == {"column_type", "element_type", "schema"}

OutOfBounds(column_id) == column_id \notin 0 .. Len(column_defs) - 1

\* Whether the schema loop raises at its i-th column: GetArrowType raises
\* for the definition read, and for a read outside the catalog it raises
\* when what is read is rejected (failing names the schema step).
SchemaRaises(i, failing) ==
    IF OutOfBounds(SelectColumns[i])
    THEN failing = "schema"
    ELSE GetArrowType(ColumnDefAt(SelectColumns[i])).fault # "none"

\* Fault variant of StepFault: the element type of the embedding is not
\* tested.
StepFault_NoElementTest(step, failing) ==
    CASE step = "column_count" ->
            IF Len(column_idx_array_) # 1 THEN "unrecoverable" ELSE "none"
      [] step = "column_type" ->
            IF OutOfBounds(column_idx_array_[1])
            THEN IF step = failing THEN "unrecoverable" ELSE "none"
            ELSE IF ColumnDefAt(column_idx_array_[1]).type # "kEmbedding"
            THEN "unrecoverable" ELSE "none"
      [] step = "element_type" -> "none"
      [] step = "schema" ->
            IF \E i \in 1 .. Len(SelectColumns) : SchemaRaises(i, failing)
            THEN "unrecoverable" ELSE "none"
      [] step = "header" -> "none"
      [] OTHER -> IF step = failing THEN "recoverable" ELSE "none"

\* The error a step of a sink raises, if any: the configuration tests of
\* ExportToFVECS, the schema loop of ExportToPARQUET, and the status tests
\* after the calls of EnvSteps, of which the call named failing returns a
\* status that is not ok.  A test on a definition read outside the catalog
\* rejects it when failing names the test.
StepFault(step, failing) ==
    CASE step = "column_count" ->
            IF Len(column_idx_array_) # 1 THEN "unrecoverable" ELSE "none"
      [] step = "column_type" ->
            IF OutOfBounds(column_idx_array_[1])
            THEN IF step = failing THEN "unrecoverable" ELSE "none"
            ELSE IF ColumnDefAt(column_idx_array_[1]).type # "kEmbedding"
            THEN "unrecoverable" ELSE "none"
      [] step = "element_type" ->
            IF OutOfBounds(column_idx_array_[1])
            THEN IF step = failing THEN "recoverable" ELSE "none"
            ELSE IF ColumnDefAt(column_idx_array_[1]).elem # "kElemFloat"
            THEN "recoverable" ELSE "none"
      [] step = "schema" ->
            IF \E i \in 1 .. Len(SelectColumns) : SchemaRaises(i, failing)
            THEN "unrecoverable" ELSE "none"
      [] step = "header" -> "none"
      [] OTHER -> IF step = failing THEN "recoverable" ELSE "none"

\* The subscripts a step reads column_defs at: the header's default label,
\* the exported column of ExportToFVECS, and the schema loop up to the
\* column it raises at.
StepReads(step, failing) ==
    CASE step = "header" ->
            IF header_
            THEN { SelectColumns[i] : i \in { j \in 1 .. Len(SelectColumns) :
                                                SelectColumns[j] \notin VirtualColumns } }
            ELSE {}
      [] step = "column_type" -> {column_idx_array_[1]}
      [] step = "schema" ->
            { SelectColumns[i] : i \in { j \in 1 .. Len(SelectColumns) :
                                           \A k \in 1 .. j - 1 : ~SchemaRaises(k, failing) } }
      [] OTHER -> {}

\* The effect of a successful step on the files: Open and OpenStream
\* create and open the file name; reset releases the writer and the stream
\* held, which closes their file.
StepFiles(step, fs, name) ==
    CASE step \in {"Open", "OpenStream"} -> OpenFile(fs, name)
      [] step = "reset" -> IF fs = <<>> THEN fs ELSE CloseCurrent(fs)
      [] step = "OpenWriter" -> AppendBytes(fs, <<[schema |-> Schema]>>)
      [] step = "header" -> IF header_ THEN AppendBytes(fs, <<HeaderFrom(1)>>) ELSE fs
      [] OTHER -> fs

\* The directories a successful step creates:
\* VirtualStore::MakeDirectory(parent_path).
StepDirectories(step) == IF step = "MakeDirectory" THEN {"parent_path"} ELSE {}

\* The steps in order, up to the first one that raises.
RECURSIVE RunSteps(_, _, _, _)
RunSteps(steps, failing, fs, name) ==
    IF steps = <<>>
    THEN [fault |-> NoFault, files |-> fs, reads |-> {}, made |-> {}]
    ELSE LET kind == StepFault(Head(steps), failing)
             reads == StepReads(Head(steps), failing)
         IN  IF kind # "none"
             THEN [fault |-> [kind |-> kind, at |-> Head(steps)], files |-> fs, reads |-> reads,
                   made |-> {}]
             ELSE [RunSteps(Tail(steps), failing, StepFiles(Head(steps), fs, name), name)
                      EXCEPT !.reads = reads \cup @, !.made = StepDirectories(Head(steps)) \cup @]

\* ------------------------------------------- Execute and sink prologues
\* Fault variant of SinkOf: two encodings are dispatched to each other's
\* sink.
SinkOf_Swapped(ft) ==
    CASE ft = "kCSV" -> "ExportToJSONL"
      [] ft = "kJSONL" -> "ExportToCSV"
      [] ft = "kFVECS" -> "ExportToFVECS"
      [] ft = "kPARQUET" -> "ExportToPARQUET"
      [] OTHER -> "none"

\* Execute's switch (file_type_); "none" is the default label.
SinkOf(ft) ==
    CASE ft = "kCSV" -> "ExportToCSV"
      [] ft = "kJSONL" -> "ExportToJSONL"
      [] ft = "kFVECS" -> "ExportToFVECS"
      [] ft = "kPARQUET" -> "ExportToPARQUET"
      [] OTHER -> "none"

\* Fault variant of Prologue: the directory is created before the
\* configuration is tested.
Prologue_DirectoryFirst(sink) ==
    CASE sink = "ExportToFVECS" ->
            <<"MakeDirectory", "column_count", "column_type", "element_type", "Open">>
      [] sink = "ExportToPARQUET" ->
            <<"MakeDirectory", "schema", "reset", "OpenStream", "OpenWriter">>
      [] sink = "ExportToCSV" -> <<"MakeDirectory", "Open", "header">>
      [] OTHER -> <<"MakeDirectory", "Open">>

\* Fault variant of Prologue: the file is opened before the directory is
\* created.
Prologue_OpenFirst(sink) ==
    CASE sink = "ExportToFVECS" ->
            <<"column_count", "column_type", "element_type", "Open", "MakeDirectory">>
      [] sink = "ExportToPARQUET" ->
            <<"schema", "reset", "OpenStream", "OpenWriter", "MakeDirectory">>
      [] sink = "ExportToCSV" -> <<"Open", "MakeDirectory", "header">>
      [] OTHER -> <<"Open", "MakeDirectory">>

\* The steps of a sink before its scan, in statement order.  file_path_
\* has a parent directory.
Prologue(sink) ==
    CASE sink = "ExportToFVECS" ->
            <<"column_count", "column_type", "element_type", "MakeDirectory", "Open">>
      [] sink = "ExportToPARQUET" ->
            <<"schema", "MakeDirectory", "reset", "OpenStream", "OpenWriter">>
      [] sink = "ExportToCSV" -> <<"MakeDirectory", "Open", "header">>
      [] OTHER -> <<"MakeDirectory", "Open">>

\* Fault variant of SinkPrologue: file_no_ is kept from the call before, as
\* a member would be.
SinkPrologue_KeepsFileNo(sink) ==
    LET out == RunSteps(Prologue(sink), "none", files, <<>>)
    IN  /\ out.fault = NoFault
        /\ called' = Append(called, sink)
        /\ looked_up' = looked_up \cup out.reads
        /\ directories' = directories \cup out.made
        /\ files' = out.files
        /\ offset' = offset_
        /\ row_count' = 0
        /\ file_no_' = file_no_
        /\ switch_to_new_file' = FALSE
        /\ Goto(SegmentLoopAt(1))
        /\ UNCHANGED <<request, aside, column_vectors, scanned, opstate>>

\* The sink's prologue succeeds: file_path_ is open and the locals are
\* initialised.
SinkPrologue(sink) ==
    LET out == RunSteps(Prologue(sink), "none", files, <<>>)
    IN  /\ out.fault = NoFault
        /\ called' = Append(called, sink)
        /\ looked_up' = looked_up \cup out.reads
        /\ directories' = directories \cup out.made
        /\ files' = out.files
        /\ offset' = offset_
        /\ row_count' = 0
        /\ file_no_' = 0
        /\ switch_to_new_file' = FALSE
        /\ Goto(SegmentLoopAt(1))
        /\ UNCHANGED <<request, aside, column_vectors, scanned, opstate>>

ExportToCSV_Begin ==
    pc = "execute" /\ SinkOf(file_type_) = "ExportToCSV" /\ SinkPrologue("ExportToCSV")

ExportToJSONL_Begin ==
    pc = "execute" /\ SinkOf(file_type_) = "ExportToJSONL" /\ SinkPrologue("ExportToJSONL")

ExportToFVECS_Begin ==
    pc = "execute" /\ SinkOf(file_type_) = "ExportToFVECS" /\ SinkPrologue("ExportToFVECS")

\* init_file_stream_writer(file_path_): no writer exists yet to reset.
ExportToPARQUET_Begin ==
    pc = "execute" /\ SinkOf(file_type_) = "ExportToPARQUET" /\ SinkPrologue("ExportToPARQUET")

\* The sink is called and its prologue raises: a configuration ExportToFVECS
\* rejects, or a call of the prologue that fails.
SinkPrologueFails ==
    /\ pc = "execute"
    /\ SinkOf(file_type_) # "none"
    /\ called' = Append(called, SinkOf(file_type_))
    /\ \E failing \in EnvSteps \cup UndefinedSteps \cup {"none"} :
          LET out == RunSteps(Prologue(SinkOf(file_type_)), failing, files, <<>>)
          IN  /\ out.fault # NoFault
              /\ looked_up' = looked_up \cup out.reads
              /\ directories' = directories \cup out.made
              /\ Raise(out.fault.kind, out.fault.at, out.files)
    /\ UNCHANGED <<request, aside, locals, scanned>>

\* default: UnrecoverableError("Not supported file type")
ExecuteUnsupported ==
    /\ pc = "execute"
    /\ SinkOf(file_type_) = "none"
    /\ Raise("unrecoverable", "file_type", files)
    /\ UNCHANGED <<request, aside, locals, history>>

\* The subscripts read by the schema loop or by ExportToFVECS up to the
\* first one outside the catalog, if the sink gets that far.
UnguardedReads ==
    CASE SinkOf(file_type_) = "ExportToFVECS" /\ Len(column_idx_array_) = 1 ->
            IF OutOfBounds(column_idx_array_[1]) THEN {column_idx_array_[1]} ELSE {}
      [] SinkOf(file_type_) = "ExportToPARQUET" ->
            IF \E i \in 1 .. Len(SelectColumns) :
                  /\ OutOfBounds(SelectColumns[i])
                  /\ \A k \in 1 .. i - 1 : ~SchemaRaises(k, "none")
            THEN { SelectColumns[i] : i \in { j \in 1 .. Len(SelectColumns) :
                       \A k \in 1 .. j - 1 :
                           ~SchemaRaises(k, "none") /\ ~OutOfBounds(SelectColumns[k]) } }
            ELSE {}
      [] OTHER -> {}

\* The sink reads column_defs outside its bounds and the process is ended
\* by the read (the other outcomes: the tests that follow accept or reject
\* what was read).
CatalogCrash ==
    /\ pc = "execute"
    /\ UnguardedReads # {}
    /\ called' = Append(called, SinkOf(file_type_))
    /\ looked_up' = looked_up \cup UnguardedReads
    /\ fault' = [kind |-> "crash", at |-> "column_defs"]
    /\ pc' = "crashed"
    /\ UNCHANGED <<request, aside, directories, segment_it, block_idx, row_idx, locals, files, scanned,
                   exported_row_count, result_msg_, complete>>

\* ------------------------------------------------ segment and block loop
CurrentSegment == SegmentAt(segment_it)

CurrentBlock == BlockEntry(CurrentSegment, block_idx)

\* for (auto &[segment_id, segment_snapshot] : segment_block_index_ref):
\* the segment's DeleteFilter is built.
SegmentLoopEnter ==
    /\ pc = "segment_loop"
    /\ visited' = Append(visited, CurrentSegment)
    /\ Goto(BlockLoopAt(segment_it, 0))
    /\ UNCHANGED <<request, aside, locals, files, examined, materialized, called, directories, looked_up, opstate>>

\* Fault variant of SizeChecked: no vector's Size() is tested.
SizeChecked_Never(select_column_idx) == FALSE

\* The switch on the selector: only the default label (a physical column,
\* fetched by GetConstColumnVector) tests the vector's Size().
SizeChecked(select_column_idx) == select_column_idx \notin VirtualColumns

\* The Size() of the vectors a block's materialization can obtain for a
\* block of n rows: the row-id vector is built by AppendWith(.., n) and
\* the timestamp vectors are requested for the rows 0 .. n-1, a physical
\* column's vector is whatever the buffer manager returns.
FetchedSizes(n) ==
    { vec \in [1 .. Len(BlockColumns) -> 0 .. MaxBlockRows] :
        \A i \in 1 .. Len(BlockColumns) : BlockColumns[i] \in VirtualColumns => vec[i] = n }

\* The block entry is read and its column vectors, of the sizes vec, are
\* collected in selector order; the first tested vector whose Size() is
\* not block_row_count raises, otherwise the row loop (consume_block)
\* follows.
EnterBlock(vec) ==
    LET unmatched == { i \in DOMAIN vec :
                         SizeChecked(BlockColumns[i]) /\ vec[i] # CurrentBlock.row_count }
    IN  /\ materialized' = Append(materialized, <<CurrentSegment, block_idx>>)
        /\ IF unmatched = {}
           THEN /\ column_vectors' = vec
                /\ Goto(RowLoopAt(IF file_type_ = "kPARQUET" THEN "consume_block" ELSE "row_loop",
                                  segment_it, block_idx, 0))
                /\ UNCHANGED <<files, opstate>>
           ELSE /\ column_vectors'
                     = SubSeq(vec, 1, CHOOSE i \in unmatched : \A j \in unmatched : i <= j)
                /\ Raise("unrecoverable", "Size", files)
        /\ UNCHANGED <<request, aside, counters, examined, visited, called, directories, looked_up>>

\* for (block_idx = 0; block_idx < block_count; ++block_idx), with every
\* vector of the block's row count.
BlockLoopEnter ==
    /\ pc = "block_loop"
    /\ EnterBlock([i \in 1 .. Len(BlockColumns) |-> CurrentBlock.row_count])

\* The same with a vector of another size (storage that disagrees with the
\* block entry).
BlockLoopUnmatched ==
    /\ pc = "block_loop"
    /\ \E vec \in FetchedSizes(CurrentBlock.row_count) :
          /\ \E i \in DOMAIN vec : vec[i] # CurrentBlock.row_count
          /\ EnterBlock(vec)

\* --------------------------- row loop of ExportToCSV / JSONL / FVECS
CurrentRow == <<CurrentSegment, block_idx, row_idx>>

CurrentDisposition ==
    RowDisposition(visible(CurrentSegment, FilterPos(CurrentBlock.segment_offset, row_idx)), offset)

\* Fault variant of NextRow: continue without ++row_idx.
NextRow_Stays == Goto(RowLoopAt("row_loop", segment_it, block_idx, row_idx))

\* continue: ++row_idx and the row loop's test.
NextRow == Goto(RowLoopAt("row_loop", segment_it, block_idx, row_idx + 1))

\* if (!visible(seg_off + row_idx)) continue;
RowInvisible ==
    /\ pc = "row_loop"
    /\ CurrentDisposition = "invisible"
    /\ examined' = Append(examined, CurrentRow)
    /\ NextRow
    /\ UNCHANGED <<request, aside, locals, files, materialized, visited, called, directories, looked_up, opstate>>

\* Fault variant of RowOffset: the offset is consumed from the member.
RowOffset_ConsumesMember ==
    /\ pc = "row_loop"
    /\ CurrentDisposition = "offset"
    /\ examined' = Append(examined, CurrentRow)
    /\ offset' = offset - 1
    /\ offset_' = offset_ - 1
    /\ NextRow
    /\ UNCHANGED <<file_type_, limit_, row_limit_, column_idx_array_, column_defs, block_index_,
                   header_, delimiter_, aside, row_count, file_no_, switch_to_new_file,
                   column_vectors, files, materialized, visited, called, directories, looked_up,
                   opstate>>

\* if (offset > 0) { --offset; continue; }
RowOffset ==
    /\ pc = "row_loop"
    /\ CurrentDisposition = "offset"
    /\ examined' = Append(examined, CurrentRow)
    /\ offset' = offset - 1
    /\ NextRow
    /\ UNCHANGED <<request, aside, row_count, file_no_, switch_to_new_file, column_vectors, files,
                   materialized, visited, called, directories, looked_up, opstate>>

\* Fault variant of MoveAssign: the file held before is not closed.
MoveAssign_Leak(fs) == fs

\* file_handle = std::move(new_file_handle): the handle of the part file
\* opened last replaces the one held before, which closes that file.
MoveAssign(fs) == [fs EXCEPT ![Len(fs) - 1].open = FALSE]

\* Fault variant of AfterEmit: the limit leaves the row loop only (break).
AfterEmit_BreakInner(rc) ==
    IF LimitReached(rc)
    THEN Goto(BlockLoopAt(segment_it, block_idx + 1))
    ELSE NextRow

\* if (limit_ != 0 && row_count == limit_) goto label_return; otherwise the
\* row loop goes on.
AfterEmit(rc) ==
    IF LimitReached(rc)
    THEN Goto(Pos("label_return", segment_it, block_idx, row_idx))
    ELSE NextRow

\* The row is to be emitted and the rows written so far fill the current
\* file: ++file_no_ and the part file is opened, while file_handle still
\* holds the file written so far.
RowOpenPart ==
    /\ pc = "row_loop"
    /\ CurrentDisposition = "emit"
    /\ NeedNewFile(row_count)
    /\ examined' = Append(examined, CurrentRow)
    /\ file_no_' = NextFileNo(file_no_)
    /\ files' = OpenFile(files, <<NextFileNo(file_no_)>>)
    /\ pc' = "part_opened"
    /\ UNCHANGED <<request, aside, segment_it, block_idx, row_idx, offset, row_count,
                   switch_to_new_file, column_vectors, materialized, visited, called, directories, looked_up, opstate>>

\* The same with an Open of the part file that fails.
RowOpenPartFails ==
    /\ pc = "row_loop"
    /\ CurrentDisposition = "emit"
    /\ NeedNewFile(row_count)
    /\ examined' = Append(examined, CurrentRow)
    /\ file_no_' = NextFileNo(file_no_)
    /\ Raise("recoverable", "Open", files)
    /\ UNCHANGED <<request, aside, offset, row_count, switch_to_new_file, column_vectors,
                   materialized, visited, called, directories, looked_up>>

\* The subscripts the serialisation of a row reads column_defs at: the
\* default label of ExportToJSONL's switch on the selector, for the name.
RowReads ==
    IF file_type_ = "kJSONL"
    THEN { SelectColumns[i] : i \in { j \in 1 .. Len(SelectColumns) :
                                        SelectColumns[j] \notin VirtualColumns } }
    ELSE {}

\* The row is serialised and appended to the current file (after a
\* rotation: the part file, whose handle is move-assigned first);
\* ++row_count; the total row limit is tested.
RowEmit ==
    /\ IF pc = "part_opened"
       THEN /\ examined' = examined
            /\ files' = WriteCurrent(MoveAssign(files), <<CurrentRow>>)
       ELSE /\ pc = "row_loop"
            /\ CurrentDisposition = "emit"
            /\ ~NeedNewFile(row_count)
            /\ examined' = Append(examined, CurrentRow)
            /\ files' = WriteCurrent(files, <<CurrentRow>>)
    /\ looked_up' = looked_up \cup RowReads
    /\ row_count' = row_count + 1
    /\ AfterEmit(row_count + 1)
    /\ UNCHANGED <<request, aside, offset, file_no_, switch_to_new_file, column_vectors,
                   materialized, visited, called, directories, opstate>>

\* ------------------------------------- consume_block of ExportToPARQUET
\* Fault variant of FileFull: the file counts as full one row early.
FileFull_OffByOne(rc) == row_limit_ # 0 /\ ((rc + 1) % row_limit_) = 0

\* if (row_limit_ != 0 && row_count % row_limit_ == 0)
FileFull(rc) == row_limit_ # 0 /\ (rc % row_limit_) = 0

\* The inner for loop of consume_block from row idx on, with offset budget
\* off, rc rows counted, the batch out and the rows seen by the visibility
\* predicate.  A break leaves idx at the row that caused it.
RECURSIVE InnerLoop(_, _, _, _, _)
InnerLoop(idx, off, rc, out, seen) ==
    IF idx >= CurrentBlock.row_count
    THEN [idx |-> idx, offset |-> off, row_count |-> rc, rows |-> out, seen |-> seen,
          need_switch_to_new_file |-> FALSE]
    ELSE LET row == <<CurrentSegment, block_idx, idx>>
             d == RowDisposition(visible(CurrentSegment, FilterPos(CurrentBlock.segment_offset, idx)), off)
         IN  IF d = "invisible" THEN InnerLoop(idx + 1, off, rc, out, Append(seen, row))
             ELSE IF d = "offset" THEN InnerLoop(idx + 1, off - 1, rc, out, Append(seen, row))
             ELSE IF FileFull(rc + 1)
                  THEN [idx |-> idx, offset |-> off, row_count |-> rc + 1, rows |-> Append(out, row),
                        seen |-> Append(seen, row), need_switch_to_new_file |-> TRUE]
             ELSE IF rc + 1 = limit_
                  THEN [idx |-> idx, offset |-> off, row_count |-> rc + 1, rows |-> Append(out, row),
                        seen |-> Append(seen, row), need_switch_to_new_file |-> FALSE]
             ELSE InnerLoop(idx + 1, off, rc + 1, Append(out, row), Append(seen, row))

Batch == InnerLoop(row_idx, offset, row_count, <<>>, <<>>)

\* Fault variant of BatchIsEmpty: an empty batch is not skipped.
BatchIsEmpty_Never(rows) == FALSE

\* if (block_rows_for_output.empty()) continue;
BatchIsEmpty(rows) == rows = <<>>

\* Fault variant of WriterSwitch: the writer is not closed before the next
\* one is opened.
WriterSwitch_NoClose == <<"OpenStream", "OpenWriter">>

\* if (switch_to_new_file): file_writer->Close(), then
\* init_file_stream_writer(new_file_path), in statement order.
WriterSwitch == <<"Close", "reset", "OpenStream", "OpenWriter">>

SwitchWriter(fs, n) == RunSteps(WriterSwitch, "none", fs, <<n>>).files

\* Fault variant of NextBatch: the row after the one the inner loop broke at
\* is passed over.
NextBatch_SkipsRow(idx) == Goto(RowLoopAt("consume_block", segment_it, block_idx, idx + 2))

\* ++start_block_row_idx and the outer loop's test; when the loop is
\* exhausted consume_block returns true and the block loop goes on.
NextBatch(idx) == Goto(RowLoopAt("consume_block", segment_it, block_idx, idx + 1))

\* Fault variant of ConsumeBlockSkip: a pass that collects no row clears the
\* deferred rotation.
ConsumeBlockSkip_ClearsFlag ==
    /\ pc = "consume_block"
    /\ LET batch == Batch
       IN  /\ BatchIsEmpty(batch.rows)
           /\ examined' = examined \o batch.seen
           /\ offset' = batch.offset
           /\ row_count' = batch.row_count
           /\ NextBatch(batch.idx)
    /\ switch_to_new_file' = FALSE
    /\ UNCHANGED <<request, aside, file_no_, column_vectors, files, materialized,
                   visited, called, directories, looked_up, opstate>>

\* One pass of the outer loop that collects no row: continue.
ConsumeBlockSkip ==
    /\ pc = "consume_block"
    /\ LET batch == Batch
       IN  /\ BatchIsEmpty(batch.rows)
           /\ examined' = examined \o batch.seen
           /\ offset' = batch.offset
           /\ row_count' = batch.row_count
           /\ NextBatch(batch.idx)
    /\ UNCHANGED <<request, aside, file_no_, switch_to_new_file, column_vectors, files, materialized,
                   visited, called, directories, looked_up, opstate>>

\* The subscripts the loop over the selected columns reads column_defs at,
\* for BuildArrowArray.
BatchReads == { SelectColumns[i] : i \in 1 .. Len(SelectColumns) }

\* The columns whose array cannot be built with a defined behaviour: the
\* catalog is read outside its bounds, or BuildArrowArray dereferences the
\* null value_builder.
UndefinedArrays ==
    { i \in 1 .. Len(SelectColumns) :
        \/ OutOfBounds(SelectColumns[i])
        \/ ArrayBuilder(ColumnDefAt(SelectColumns[i])).undefined }

\* One pass of the outer loop that collects a batch: the writer is switched
\* when the previous batch filled its file, the batch is written, and the
\* total row limit ends the scan (return false, goto label_return).
ConsumeBlockWrite ==
    /\ pc = "consume_block"
    /\ LET batch == Batch
       IN  /\ ~BatchIsEmpty(batch.rows)
           /\ examined' = examined \o batch.seen
           /\ offset' = batch.offset
           /\ row_count' = batch.row_count
           /\ IF switch_to_new_file
              THEN /\ file_no_' = NextFileNo(file_no_)
                   /\ files' = WriteCurrent(SwitchWriter(files, NextFileNo(file_no_)), batch.rows)
              ELSE /\ file_no_' = file_no_
                   /\ files' = WriteCurrent(files, batch.rows)
           /\ switch_to_new_file' = batch.need_switch_to_new_file
           /\ IF batch.row_count = limit_
              THEN Goto(Pos("label_return", segment_it, block_idx, row_idx))
              ELSE NextBatch(batch.idx)
    /\ looked_up' = looked_up \cup BatchReads
    /\ UNCHANGED <<request, aside, column_vectors, materialized, visited, called, directories, opstate>>

\* The same pass with a call of the writer that fails: while the writer
\* is switched, or WriteRecordBatch.
ConsumeBlockFails ==
    /\ pc = "consume_block"
    /\ LET batch == Batch
           steps == (IF switch_to_new_file THEN WriterSwitch ELSE <<>>) \o <<"WriteRecordBatch">>
       IN  /\ ~BatchIsEmpty(batch.rows)
           /\ examined' = examined \o batch.seen
           /\ offset' = batch.offset
           /\ row_count' = batch.row_count
           /\ \E failing \in EnvSteps :
                 LET out == RunSteps(steps, failing, files, <<NextFileNo(file_no_)>>)
                 IN  /\ out.fault # NoFault
                     /\ file_no_' = IF switch_to_new_file /\ failing # "Close"
                                    THEN NextFileNo(file_no_) ELSE file_no_
                     /\ looked_up' = IF failing = "WriteRecordBatch"
                                     THEN looked_up \cup BatchReads ELSE looked_up
                     /\ Raise(out.fault.kind, out.fault.at, out.files)
    /\ UNCHANGED <<request, aside, switch_to_new_file, column_vectors, materialized, visited, called, directories>>

\* The same pass when an array cannot be built with a defined behaviour and
\* the process is ended by the read (the other outcome is that the pass
\* goes on with what was read).
ConsumeBlockCrash ==
    /\ pc = "consume_block"
    /\ UndefinedArrays # {}
    /\ LET batch == Batch
       IN  /\ ~BatchIsEmpty(batch.rows)
           /\ examined' = examined \o batch.seen
           /\ offset' = batch.offset
           /\ row_count' = batch.row_count
           /\ IF switch_to_new_file
              THEN /\ file_no_' = NextFileNo(file_no_)
                   /\ files' = SwitchWriter(files, NextFileNo(file_no_))
              ELSE /\ file_no_' = file_no_
                   /\ files' = files
    /\ looked_up' = looked_up
                      \cup { SelectColumns[i] : i \in { k \in 1 .. Len(SelectColumns) :
                                                         \A j \in UndefinedArrays : k <= j } }
    /\ fault' = [kind |-> "crash", at |-> "BuildArrowArray"]
    /\ pc' = "crashed"
    /\ UNCHANGED <<request, aside, segment_it, block_idx, row_idx, switch_to_new_file, column_vectors,
                   materialized, visited, called, directories, exported_row_count, result_msg_, complete>>

\* ------------------------------------------------ return and completion
\* label_return: the columnar writer is closed explicitly, the file handle
\* of the other sinks by leaving its scope; the sink returns row_count.
LabelReturn ==
    /\ pc = "label_return"
    /\ files' = CloseCurrent(files)
    /\ exported_row_count' = row_count
    /\ pc' = "returned"
    /\ UNCHANGED <<request, aside, segment_it, block_idx, row_idx, locals, history, result_msg_,
                   complete, fault>>

\* label_return of ExportToPARQUET with a Close of the writer that fails.
LabelReturnFails ==
    /\ pc = "label_return"
    /\ file_type_ = "kPARQUET"
    /\ Raise("recoverable", "Close", files)
    /\ UNCHANGED <<request, aside, locals, history>>

\* Fault variant of ExecuteComplete: the result is set after an error too.
ExecuteComplete_AfterFault ==
    /\ pc \in {"returned", "failed"}
    /\ result_msg_' = <<"EXPORT", exported_row_count, "Rows">>
    /\ complete' = TRUE
    /\ pc' = "done"
    /\ UNCHANGED <<request, aside, segment_it, block_idx, row_idx, locals, files, history,
                   exported_row_count, fault>>

\* Execute sets the result message and marks the operator state complete.
ExecuteComplete ==
    /\ pc = "returned"
    /\ result_msg_' = <<"EXPORT", exported_row_count, "Rows">>
    /\ complete' = TRUE
    /\ pc' = "done"
    /\ UNCHANGED <<request, aside, segment_it, block_idx, row_idx, locals, files, history,
                   exported_row_count, fault>>

Next ==
    \/ ExportToCSV_Begin
    \/ ExportToJSONL_Begin
    \/ ExportToFVECS_Begin
    \/ ExportToPARQUET_Begin
    \/ SegmentLoopEnter
    \/ BlockLoopEnter
    \/ RowInvisible
    \/ RowOffset
    \/ RowOpenPart
    \/ RowEmit
    \/ ConsumeBlockSkip
    \/ ConsumeBlockWrite
    \/ LabelReturn
    \/ ExecuteComplete

Spec == Init /\ [][Next]_vars

\* ------------------------------------------- the export under faults
\* The tables and explicit column lists ExportToFVECS is requested with:
\* a catalog of one or two columns and a list of physical column indexes.
PhysicalConfigs ==
    { [defs |-> <<FloatEmbedding>>, idx |-> <<0>>],
      [defs |-> <<FloatEmbedding>>, idx |-> <<>>],
      [defs |-> <<Int8Embedding>>, idx |-> <<0>>],
      [defs |-> <<IntegerColumn>>, idx |-> <<0>>],
      [defs |-> <<FloatEmbedding, IntegerColumn>>, idx |-> <<>>],
      [defs |-> <<FloatEmbedding, IntegerColumn>>, idx |-> <<0, 1>>],
      [defs |-> <<FloatEmbedding, IntegerColumn>>, idx |-> <<1>>] }

\* The ones of the sinks that export any column.
ScanConfigs ==
    { [defs |-> <<FloatEmbedding>>, idx |-> <<0>>],
      [defs |-> <<FloatEmbedding, IntegerColumn>>, idx |-> <<>>] }

\* Column lists with virtual selectors, for the sinks whose materialization
\* is the one of ExportToCSV.
VirtualConfigs ==
    { [defs |-> <<FloatEmbedding>>, idx |-> <<COLUMN_IDENTIFIER_ROW_ID>>],
      [defs |-> <<FloatEmbedding>>,
       idx |-> <<COLUMN_IDENTIFIER_CREATE, 0, COLUMN_IDENTIFIER_DELETE>>] }

ColumnConfigs(ft) ==
    CASE ft \in {"kCSV", "kJSONL"} -> ScanConfigs \cup VirtualConfigs
      [] ft = "kFVECS" -> PhysicalConfigs
      [] ft = "kPARQUET" -> ScanConfigs
      [] OTHER -> { [defs |-> <<FloatEmbedding>>, idx |-> <<0>>] }

\* The snapshots whose rows are all visible but, possibly, the one at
\* segment offset 0.
MostlyVisible(segment_snapshot) ==
    UNION { { segment_snapshot.block_map_[b].segment_offset + r
                : r \in 0 .. segment_snapshot.block_map_[b].row_count - 1 }
            : b \in DOMAIN segment_snapshot.block_map_ } \ {0}
        \subseteq segment_snapshot.visible

FaultSnapshots == { f \in Snapshots : \A s \in DOMAIN f : MostlyVisible(f[s]) }

\* Every encoding value (kInvalid stands for the values Execute does not
\* handle), the column configurations of the sink, and offset_, limit_ and
\* row_limit_ within the bounds, over the snapshots of FaultSnapshots.
InitFault ==
    /\ file_type_ \in FileTypes \cup {"kInvalid"}
    /\ offset_ \in 0 .. MaxOffset
    /\ limit_ \in 0 .. MaxLimit
    /\ row_limit_ \in 0 .. MaxRowLimit
    /\ \E c \in ColumnConfigs(file_type_) :
          /\ column_defs = c.defs
          /\ column_idx_array_ = c.idx
    /\ block_index_ \in FaultSnapshots
    /\ header_ = FALSE
    /\ delimiter_ = ","
    /\ lowered_column = FloatEmbedding
    /\ InitRun
    /\ HandlerIdle

NextFault ==
    \/ ExportToCSV_Begin
    \/ ExportToJSONL_Begin
    \/ ExportToFVECS_Begin
    \/ ExportToPARQUET_Begin
    \/ SinkPrologueFails
    \/ ExecuteUnsupported
    \/ SegmentLoopEnter
    \/ BlockLoopEnter
    \/ BlockLoopUnmatched
    \/ RowInvisible
    \/ RowOffset
    \/ RowOpenPart
    \/ RowOpenPartFails
    \/ RowEmit
    \/ ConsumeBlockSkip
    \/ ConsumeBlockWrite
    \/ ConsumeBlockFails
    \/ LabelReturn
    \/ LabelReturnFails
    \/ ExecuteComplete

SpecFault == InitFault /\ [][NextFault]_vars

\* ------------------------------------- the type lowering on its own
\* The dimensions of a vector column range over 1..MaxDimension.
MaxDimension == 2

\* The column definitions a catalog can hold: every logical type, and for
\* the vector family and sparse columns every element type (and index
\* type).
ColumnDefs ==
    { Scalar("c", type) : type \in DOMAIN ScalarTypes \cup NonExportableTypes }
    \cup { ColumnDef("c", type, elem, "none", dim) :
             type \in VectorTypes, elem \in ElementTypes, dim \in 1 .. MaxDimension }
    \cup { ColumnDef("c", "kSparse", elem, index, MaxDimension) :
             elem \in ElementTypes, index \in IndexTypes }

\* GetArrowType and BuildArrowArray are functions of the column definition
\* (the builder's construction does not depend on the values appended).
InitLower ==
    /\ lowered_column \in ColumnDefs
    /\ file_type_ = "kPARQUET"
    /\ offset_ = 0
    /\ limit_ = 0
    /\ row_limit_ = 0
    /\ column_idx_array_ = <<>>
    /\ column_defs = <<lowered_column>>
    /\ block_index_ = (1 :> [block_map_ |-> BlockMap(<<0>>), visible |-> {}])
    /\ header_ = FALSE
    /\ delimiter_ = ","
    /\ InitRun
    /\ HandlerIdle

\* auto arrow_type = GetArrowType(column_def)
GetArrowTypeCall ==
    /\ arrow_type = NotCalled
    /\ arrow_type' = GetArrowType(lowered_column)
    /\ UNCHANGED <<request, position, locals, files, history, opstate, previous, persistence,
                   lowered_column, array_builder>>

\* BuildArrowArray(column_def, column_vector, {}) up to the builder's
\* construction.  Where the statements executed have no defined behaviour
\* the call ends the process or goes on with a builder of some type.
BuildArrowArrayCall ==
    /\ array_builder = NotCalled
    /\ array_builder' \in
          IF ArrayBuilder(lowered_column).undefined
          THEN {ArrayBuilder(lowered_column), Crashed(ArrayBuilder(lowered_column).message)}
          ELSE {ArrayBuilder(lowered_column)}
    /\ UNCHANGED <<request, position, locals, files, history, opstate, previous, persistence,
                   lowered_column, arrow_type>>

NextLower ==
    \/ GetArrowTypeCall
    \/ BuildArrowArrayCall

SpecLower == InitLower /\ [][NextLower]_vars

\* ------------------------------------------- the export's content
\* Columns of the exported tables.
IdColumn == Scalar("id", "kInteger")
NameColumn == Scalar("name", "kVarchar")
NoteColumn == Scalar("note", "kVarchar")
SparseColumn == ColumnDef("sparse", "kSparse", "kElemFloat", "kElemInt8", MaxDimension)
FamilyColumn(name, type) == ColumnDef(name, type, "kElemFloat", "none", MaxDimension)

\* Tables and column lists for the sinks that export any column: the
\* catalog in its order and in another order, texts and vectors of every
\* quoted logical type, and virtual selectors.
ContentConfigs ==
    { [defs |-> <<IdColumn, NameColumn>>, idx |-> <<>>],
      [defs |-> <<IdColumn, NameColumn>>, idx |-> <<1, 0>>],
      [defs |-> <<NoteColumn, FamilyColumn("vec", "kEmbedding")>>, idx |-> <<>>],
      [defs |-> <<SparseColumn, FamilyColumn("multi", "kMultiVector")>>, idx |-> <<>>],
      [defs |-> <<FamilyColumn("tensor", "kTensor"), FamilyColumn("tensors", "kTensorArray")>>,
       idx |-> <<1, 0>>],
      [defs |-> <<IdColumn, NameColumn>>,
       idx |-> <<COLUMN_IDENTIFIER_ROW_ID, 0, COLUMN_IDENTIFIER_CREATE,
                 COLUMN_IDENTIFIER_DELETE>>] }

\* A table with a column that has no columnar type, for ExportToPARQUET.
UuidColumn == Scalar("uuid", "kUuid")

RejectedConfigs ==
    { [defs |-> <<IdColumn, UuidColumn>>, idx |-> <<>>],
      [defs |-> <<IdColumn, UuidColumn>>, idx |-> <<0>>] }

\* The ones for ExportToFVECS: a float embedding of every dimension, and a
\* virtual selector.
VectorConfigs ==
    { [defs |-> <<ColumnDef("vec", "kEmbedding", "kElemFloat", "none", dim)>>, idx |-> <<0>>]
        : dim \in 1 .. MaxDimension }
    \cup { [defs |-> <<FloatEmbedding>>, idx |-> <<COLUMN_IDENTIFIER_ROW_ID>>] }

\* The snapshots of FaultSnapshots whose blocks hold one or two rows.
ContentSnapshots ==
    { f \in FaultSnapshots :
        \A s \in DOMAIN f : \A b \in DOMAIN f[s].block_map_ :
            f[s].block_map_[b].row_count \in {1, 2} }

\* Every encoding, the tables and column lists above, both header flags
\* and two delimiters for the text encoding, and offset_, limit_ and
\* row_limit_ at their extremes.
InitContent ==
    /\ file_type_ \in FileTypes \cup {"kInvalid"}
    /\ offset_ \in {0, MaxOffset}
    /\ limit_ \in {0, MaxLimit}
    /\ row_limit_ \in {0, MaxRowLimit}
    /\ \E c \in (CASE file_type_ = "kFVECS" -> VectorConfigs \cup PhysicalConfigs
                    [] file_type_ = "kPARQUET" -> ContentConfigs \cup RejectedConfigs
                    [] file_type_ = "kInvalid" -> { [defs |-> <<IdColumn>>, idx |-> <<>>] }
                    [] OTHER -> ContentConfigs) :
          /\ column_defs = c.defs
          /\ column_idx_array_ = c.idx
    /\ block_index_ \in ContentSnapshots
    /\ header_ \in IF file_type_ = "kCSV" THEN BOOLEAN ELSE {FALSE}
    /\ delimiter_ \in IF file_type_ = "kCSV" THEN {",", "|"} ELSE {","}
    /\ lowered_column = FloatEmbedding
    /\ InitRun
    /\ HandlerIdle

NextContent ==
    \/ NextFault
    \/ CatalogCrash
    \/ ConsumeBlockCrash

SpecContent == InitContent /\ [][NextContent]_vars

\* ----------------------------------------- the persistence result handler
\* persist_keys_ and drop_keys_ hold up to MaxKeys keys each.
MaxKeys == 2

ObjectKeys == {"a", "b", "c"}

\* pm_->GetObjPath(key): the file of the object named key.
GetObjPath(key) == "persistence/" \o key

\* ObjAddr: the object's key and the part of the object addressed.
ObjAddrs == [obj_key_ : ObjectKeys, part_offset_ : {0, 8}, part_size_ : {8}]

KeyLists == UNION { [1 .. n -> ObjectKeys] : n \in 0 .. MaxKeys }

PersistWriteResults == [kind : {"write"}, persist_keys_ : KeyLists, drop_keys_ : KeyLists]

PersistReadResults == [kind : {"read"}, cached_ : BOOLEAN, obj_addr_ : ObjAddrs]

\* A result of either kind is handed to the handler, over any set of object
\* files; no export runs.
InitPersist ==
    /\ persisted \in SUBSET { GetObjPath(key) : key \in ObjectKeys }
    /\ result \in PersistWriteResults \cup PersistReadResults
    /\ handled = NotHandled
    /\ file_type_ = "kCSV"
    /\ offset_ = 0
    /\ limit_ = 0
    /\ row_limit_ = 0
    /\ column_idx_array_ = <<>>
    /\ column_defs = <<IntegerColumn>>
    /\ block_index_ = (1 :> [block_map_ |-> BlockMap(<<0>>), visible |-> {}])
    /\ header_ = FALSE
    /\ delimiter_ = ","
    /\ lowered_column = IntegerColumn
    /\ InitRun

\* Fault variant of RemovePaths: the files of the persist keys are removed
\* as well.
RemovePaths_PersistKeysToo(write_result, object_files) ==
    object_files \ { GetObjPath(key) :
                       key \in { write_result.drop_keys_[i] : i \in DOMAIN write_result.drop_keys_ }
                                \cup { write_result.persist_keys_[i]
                                         : i \in DOMAIN write_result.persist_keys_ } }

\* The two loops of HandleWriteResult: nothing for a persist key,
\* fs::remove(pm_->GetObjPath(drop_key)) for every drop key (a path that
\* does not exist is left alone).
RemovePaths(write_result, object_files) ==
    object_files \ { GetObjPath(write_result.drop_keys_[i]) : i \in DOMAIN write_result.drop_keys_ }

HandleWriteResult ==
    /\ result.kind = "write"
    /\ handled = NotHandled
    /\ persisted' = RemovePaths(result, persisted)
    /\ handled' = [fault |-> "none", returned |-> Nothing, before |-> persisted]
    /\ UNCHANGED <<request, position, locals, files, history, opstate, lowering, previous, result>>

\* if (!result.cached_) UnrecoverableError(fmt::format(..., obj_key_));
\* return result.obj_addr_;
HandleReadResult ==
    /\ result.kind = "read"
    /\ handled = NotHandled
    /\ handled' =
          IF ~result.cached_
          THEN [fault |-> "unrecoverable", returned |-> Nothing,
                message |-> [format |-> "HandleReadResult: object {} is not cached",
                             args |-> <<result.obj_addr_.obj_key_>>]]
          ELSE [fault |-> "none", returned |-> result.obj_addr_]
    /\ UNCHANGED <<request, position, locals, files, history, opstate, lowering, previous,
                   persisted, result>>

NextPersist ==
    \/ HandleWriteResult
    \/ HandleReadResult

SpecPersist == InitPersist /\ [][NextPersist]_vars

\* ======================================================================
\* The export's expected result, computed from the request and the snapshot
\* alone (not from the scan).
Min(a, b) == IF a <= b THEN a ELSE b

Max(a, b) == IF a >= b THEN a ELSE b

CeilDiv(n, k) == (n + k - 1) \div k

Last(q) == q[Len(q)]

\* Lexicographic order on integer tuples of one length.
LexLess(a, b) ==
    \E i \in DOMAIN a : a[i] < b[i] /\ \A j \in 1 .. i - 1 : a[j] = b[j]

RECURSIVE Sorted(_)
Sorted(S) ==
    IF S = {} THEN <<>>
    ELSE LET m == CHOOSE x \in S : \A y \in S : x = y \/ LexLess(x, y)
         IN  <<m>> \o Sorted(S \ {m})

AllSegments == { <<s>> : s \in DOMAIN block_index_ }

SegmentsAscending == [i \in 1 .. Cardinality(AllSegments) |-> Sorted(AllSegments)[i][1]]

BlocksOfSegment(s) == [b \in 1 .. Len(block_index_[s].block_map_) |-> <<s, b - 1>>]

RowsOfBlock(sb) ==
    [r \in 1 .. block_index_[sb[1]].block_map_[sb[2] + 1].row_count |-> <<sb[1], sb[2], r - 1>>]

\* The concatenation of F(q[1]), F(q[2]), ...
RECURSIVE ConcatMap(_, _)
ConcatMap(F(_), q) == IF q = <<>> THEN <<>> ELSE F(Head(q)) \o ConcatMap(F, Tail(q))

\* (segment id, block position) ascending.
BlockOrder == ConcatMap(BlocksOfSegment, SegmentsAscending)

\* (segment id, block position, row index) ascending.
ScanOrder == ConcatMap(RowsOfBlock, BlockOrder)

\* The visibility predicate at the row's segment position.
RowVisible(row) ==
    (block_index_[row[1]].block_map_[row[2] + 1].segment_offset + row[3])
        \in block_index_[row[1]].visible

VisibleRows == SelectSeq(ScanOrder, RowVisible)

VisibleCount == Len(VisibleRows)

ExpectedCount ==
    IF limit_ = 0
    THEN Max(VisibleCount - offset_, 0)
    ELSE Min(Max(VisibleCount - offset_, 0), limit_)

\* The rows of the output, base file first, then the parts as created.
RECURSIVE ConcatFiles(_)
ConcatFiles(fs) == IF fs = <<>> THEN <<>> ELSE FileRows(Head(fs)) \o ConcatFiles(Tail(fs))

Emitted == ConcatFiles(files)

IndexOf(q, x) == CHOOSE i \in DOMAIN q : q[i] = x

Prefix(q, x) == SubSeq(q, 1, IndexOf(q, x))

SomeInvisibleExamined == \E i \in DOMAIN examined : ~RowVisible(examined[i])

\* ======================================================================
\* C1: in each of the four sinks the returned row count is max(R - o, 0)
\* when l = 0 and min(max(R - o, 0), l) when l > 0, for R visible rows,
\* offset o and limit l.
C1_RowCount ==
    pc \in {"returned", "done"} => exported_row_count = ExpectedCount

C1_Witness ==
    /\ pc = "done"
    /\ offset_ > 0
    /\ limit_ > 0
    /\ VisibleCount - offset_ > limit_
    /\ exported_row_count = limit_

\* C2: offset and limit are applied after visibility filtering: only
\* visible rows spend the offset budget or count as emitted, and the rows
\* emitted are the visible rows o+1 .. o+count of the visible-row sequence
\* in scan order.  (While a part file is being opened for a row, that row
\* has passed the filter and is not yet counted.)
C2_AfterVisibility ==
    pc # "execute" =>
        /\ (offset_ - offset) + row_count + (IF pc = "part_opened" THEN 1 ELSE 0)
              = Cardinality({ i \in DOMAIN examined : RowVisible(examined[i]) })
        /\ Emitted = SubSeq(VisibleRows, offset_ + 1, offset_ + row_count)

C2_Witness ==
    /\ pc = "done"
    /\ offset_ > 0
    /\ row_count > 0
    /\ ~RowVisible(examined[1])
    /\ \E i \in DOMAIN examined : ~RowVisible(examined[i]) /\ LexLess(Emitted[1], examined[i])

\* C3: no row whose visibility predicate is false at (block segment offset
\* + row index) is written to any output file.
C3_NoInvisibleRow ==
    \A i \in DOMAIN files :
        LET rows == FileRows(files[i])
        IN  \A j \in DOMAIN rows : RowVisible(rows[j])

C3_Witness ==
    /\ pc = "done"
    /\ Len(files) >= 2
    /\ offset_ > 0
    /\ limit_ > 0
    /\ SomeInvisibleExamined

\* C4: the base file followed by the part files in part-number order holds
\* the rows in strictly increasing (segment id, block position, row index)
\* order, so no row twice.
C4_ScanOrder ==
    LET rows == Emitted
    IN  \A i, j \in DOMAIN rows : i < j => LexLess(rows[i], rows[j])

C4_Witness ==
    /\ pc = "done"
    /\ Len(files) >= 2
    /\ Len(Emitted) >= 3
    /\ Emitted[1][1] # Last(Emitted)[1]

\* C5 as stated: with per-file limit k > 0 and n emitted rows the export
\* produces ceil(n/k) files, for every n >= 0.
C5_CeilForEveryN ==
    (pc = "done" /\ row_limit_ > 0) => Len(files) = CeilDiv(exported_row_count, row_limit_)

\* C5 amended: with per-file limit k > 0 and n emitted rows the export
\* produces ceil(n/k) files when n >= 1 and exactly one file, the empty
\* base file, when n = 0.
C5_FileCount ==
    (pc = "done" /\ row_limit_ > 0) =>
        Len(files) = IF exported_row_count = 0 THEN 1
                     ELSE CeilDiv(exported_row_count, row_limit_)

C5_Witness ==
    /\ pc = "done"
    /\ row_limit_ > 1
    /\ exported_row_count > row_limit_
    /\ exported_row_count % row_limit_ # 0
    /\ Len(files) = CeilDiv(exported_row_count, row_limit_)

\* C6: with per-file limit k > 0 the base file holds emitted rows 1..k,
\* part N holds emitted rows N*k+1 .. (N+1)*k, every file but the last
\* holds exactly k rows, and only rows that passed visibility and offset
\* filtering are counted.
C6_FileContents ==
    (pc # "execute" /\ row_limit_ > 0) =>
        /\ LET selected == VisibleRows
           IN  \A i \in DOMAIN files :
                  FileRows(files[i])
                     = SubSeq(selected, offset_ + (i - 1) * row_limit_ + 1,
                              offset_ + Min(i * row_limit_, row_count))
        /\ \A i \in 1 .. Len(files) - 1 : Len(FileRows(files[i])) = row_limit_

C6_Witness ==
    /\ pc = "done"
    /\ row_limit_ = 2
    /\ Len(files) = 2
    /\ Len(FileRows(files[1])) = 2
    /\ Len(FileRows(files[2])) = 1
    /\ SomeInvisibleExamined

\* C7: with per-file limit 0 every sink writes all emitted rows to exactly
\* one file, the original path, and opens no part file.
C7_SingleFile ==
    (pc # "execute" /\ row_limit_ = 0) =>
        /\ Len(files) = 1
        /\ files[1].name = <<>>
        /\ file_no_ = 0
        /\ FileRows(files[1]) = SubSeq(VisibleRows, offset_ + 1, offset_ + row_count)

C7_Witness ==
    /\ pc = "done"
    /\ row_limit_ = 0
    /\ exported_row_count >= 3
    /\ Len(FileRows(files[1])) = exported_row_count

\* C8: no part file exists without a row written to it, also when the
\* per-file limit is hit at the last emitted row, at the total row limit,
\* or when all remaining rows are invisible.  (A part file is empty only
\* between its opening and the append of the row it was opened for.)
C8_NoEmptyPart ==
    \A i \in DOMAIN files :
        files[i].name # <<>> =>
            \/ FileRows(files[i]) # <<>>
            \/ pc = "part_opened" /\ i = Len(files)

C8_Witness ==
    /\ pc = "done"
    /\ row_limit_ > 0
    /\ Len(files) >= 2
    /\ exported_row_count = row_limit_ * Len(files)
    /\ ~RowVisible(Last(examined))

\* C9: the first file opened is file_path_ and the files created after it
\* are file_path_.part1, .part2, .part3, ... in creation order.
C9_PartNames ==
    /\ pc # "execute" => Len(files) >= 1
    /\ \A i \in DOMAIN files : files[i].name = IF i = 1 THEN <<>> ELSE <<i - 1>>

C9_Witness ==
    /\ pc = "done"
    /\ Len(files) = 3
    /\ files[3].name = <<2>>

\* C10: the scan ends early exactly when a positive total row limit is
\* reached, and then at once: the row that reaches the limit is the last
\* row examined, its block the last materialized, its segment the last
\* visited; otherwise every row, block and segment is scanned.  The open
\* file is closed before the sink has returned.
C10_LimitStopsScan ==
    pc \in {"label_return", "returned", "done"} =>
        /\ LET selected == VisibleRows
           IN
           IF limit_ > 0 /\ Len(selected) >= offset_ + limit_
           THEN LET limit_row == selected[offset_ + limit_]
                IN  /\ examined = Prefix(ScanOrder, limit_row)
                    /\ materialized = Prefix(BlockOrder, <<limit_row[1], limit_row[2]>>)
                    /\ visited = Prefix(SegmentsAscending, limit_row[1])
           ELSE /\ examined = ScanOrder
                /\ materialized = BlockOrder
                /\ visited = SegmentsAscending
        /\ pc # "label_return" => \A i \in DOMAIN files : ~files[i].open

C10_Witness ==
    /\ pc = "done"
    /\ limit_ > 0
    /\ exported_row_count = limit_
    /\ Len(examined) < Len(ScanOrder)
    /\ Len(visited) < Cardinality(AllSegments)
    /\ Len(files) >= 2

\* C11: when the sink has returned its row count, and when Execute has set
\* the result message and marked the operator state complete, no output
\* file is open, on normal and on limit-triggered completion alike.
C11_ClosedBeforeReport ==
    (pc \in {"returned", "done"} \/ complete \/ result_msg_ # <<>>) =>
        /\ files # <<>>
        /\ \A i \in DOMAIN files : ~files[i].open

\* Limit-triggered completion after a rotation: two files were opened.
C11_Witness ==
    /\ complete
    /\ result_msg_ = <<"EXPORT", limit_, "Rows">>
    /\ limit_ > 0
    /\ Len(examined) < Len(ScanOrder)
    /\ Len(files) >= 2
    /\ \A i \in DOMAIN files : FileRows(files[i]) # <<>> /\ ~files[i].open

\* C13 as stated: at most one output file is open at any instant of the
\* export (on a rotation the current file is closed before the part file
\* is opened).
C13_OneOpenFile ==
    Cardinality({ i \in DOMAIN files : files[i].open }) <= 1

\* C12: after every fault, in particular one raised mid-scan (a part file
\* or a writer that cannot be opened, a writer's write or close that
\* fails, a column vector of the wrong size), no output file is open.
C12_NoHandleLeftOpen ==
    fault # NoFault => \A i \in DOMAIN files : ~files[i].open

\* The columnar writer cannot be opened on a part file already created.
C12_Witness ==
    /\ fault = [kind |-> "recoverable", at |-> "OpenWriter"]
    /\ Len(files) = 2
    /\ FileRows(files[1]) # <<>>
    /\ FileRows(files[2]) = <<>>
    /\ \A i \in DOMAIN files : ~files[i].open

\* The rows of the block materialized last, among the rows q.
OfLastBlock(q) ==
    { i \in DOMAIN q : <<q[i][1], q[i][2]>> = Last(materialized) }

C15_DirectoryFault ==
    fault.at = "MakeDirectory" =>
        /\ fault.kind = "recoverable"
        /\ called = <<SinkOf(file_type_)>>
        /\ files = <<>>
        /\ visited = <<>>
        /\ materialized = <<>>
        /\ examined = <<>>
        /\ row_count = 0

C15_Witness ==
    /\ fault = [kind |-> "recoverable", at |-> "MakeDirectory"]
    /\ file_type_ = "kFVECS"
    /\ pc = "failed"
    /\ files = <<>>

\* The configuration the raw flat-vector export is meant for: exactly one
\* selected column, a vector of floating-point elements.
OneFloatVectorSelected ==
    /\ Len(SelectColumns) = 1
    /\ column_defs[SelectColumns[1] + 1] = FloatEmbedding

C17_BothRecoverable ==
    (/\ file_type_ = "kFVECS"
     /\ pc # "execute"
     /\ \/ Len(column_idx_array_) > 1
        \/ /\ Len(column_idx_array_) = 1
           /\ column_defs[column_idx_array_[1] + 1].type = "kEmbedding"
           /\ column_defs[column_idx_array_[1] + 1].elem # "kElemFloat")
        => fault.kind = "recoverable"

\* C18 as stated: a raw flat-vector export with an empty column list on a
\* table whose only column is a float vector is accepted and exports that
\* column.
C18_EmptyListAccepted ==
    (/\ file_type_ = "kFVECS"
     /\ pc # "execute"
     /\ column_idx_array_ = <<>>
     /\ column_defs = <<FloatEmbedding>>)
        => /\ fault = NoFault
           /\ files # <<>>
           /\ BlockColumns = <<0>>

\* C19: Execute calls the sink of the encoding, once, and no sink for any
\* other encoding value, for which it raises an unrecoverable fault; on
\* success the result message is "EXPORT n Rows" with n the row count the
\* sink returned and the operator state is complete.
C19_Dispatch ==
    /\ called = IF pc = "execute" THEN <<>>
                ELSE CASE file_type_ = "kCSV" -> <<"ExportToCSV">>
                       [] file_type_ = "kJSONL" -> <<"ExportToJSONL">>
                       [] file_type_ = "kFVECS" -> <<"ExportToFVECS">>
                       [] file_type_ = "kPARQUET" -> <<"ExportToPARQUET">>
                       [] OTHER -> <<>>
    /\ (pc # "execute" /\ file_type_ \notin FileTypes) =>
          /\ fault = [kind |-> "unrecoverable", at |-> "file_type"]
          /\ files = <<>>
    /\ pc = "done" <=> complete
    /\ pc = "done" =>
          /\ fault = NoFault
          /\ result_msg_ = <<"EXPORT", row_count, "Rows">>
    /\ pc \notin {"done", "returned"} => exported_row_count = 0

C19_Witness ==
    /\ pc = "done"
    /\ file_type_ = "kJSONL"
    /\ called = <<"ExportToJSONL">>
    /\ row_count >= 2
    /\ result_msg_ = <<"EXPORT", row_count, "Rows">>
    /\ complete

\* C20: when a fault is raised the caller receives the error and no row
\* count: the result message is not set and the operator state is not
\* marked complete.
C20_NoResultOnFault ==
    (fault # NoFault \/ pc = "failed") =>
        /\ fault.kind \in {"recoverable", "unrecoverable"}
        /\ pc = "failed"
        /\ result_msg_ = <<>>
        /\ ~complete
        /\ exported_row_count = 0

\* A write of the columnar writer fails after rows were collected.
C20_Witness ==
    /\ fault = [kind |-> "recoverable", at |-> "WriteRecordBatch"]
    /\ row_count > 0
    /\ result_msg_ = <<>>
    /\ ~complete

\* ------------------------------------------------ the lowering's claims
\* The physical type at the end of a lowered type: the element of the
\* lists, for a structure the element of its last field.
RECURSIVE Leaf(_)
Leaf(t) ==
    IF t.kind \in {"list", "fixed_size_list"} THEN Leaf(t.value_type)
    ELSE IF t.kind = "struct" THEN Leaf(t.fields[Len(t.fields)].type)
    ELSE t

\* A lowered type with k variable-length lists taken off.
RECURSIVE Unwrap(_, _)
Unwrap(t, k) ==
    IF k = 0 THEN t
    ELSE IF t.kind = "list" THEN Unwrap(t.value_type, k - 1)
    ELSE nullptr

FieldNames(t) ==
    IF t.kind = "struct" THEN [i \in 1 .. Len(t.fields) |-> t.fields[i].name] ELSE <<>>

GetArrowTypeCalled == arrow_type.type # Arrow("not called")

BuildArrowArrayCalled == array_builder.type # Arrow("not called")

\* The 16-bit format of the column, if it has one: as a scalar column, as
\* the element of a vector or as the value element of a sparse column.
SixteenBitFormat ==
    CASE lowered_column.type \in {"kFloat16", "kBFloat16"} -> lowered_column.type
      [] lowered_column.type \in VectorTypes \cup {"kSparse"}
         /\ lowered_column.elem \in {"kElemFloat16", "kElemBFloat16"} ->
            IF lowered_column.elem = "kElemFloat16" THEN "kFloat16" ELSE "kBFloat16"
      [] OTHER -> "none"

\* C23, as stated: every 16-bit floating-point format (Float16 and
\* BFloat16; scalar column, vector element, sparse value element) is
\* lowered to the 32-bit float physical type, by the schema and by the
\* builder.
C23_SixteenBitToFloat32 ==
    SixteenBitFormat # "none" =>
        /\ GetArrowTypeCalled => Leaf(arrow_type.type) = Arrow("float32")
        /\ BuildArrowArrayCalled => Leaf(array_builder.type) = Arrow("float32")

\* C23, amended: BFloat16 is lowered to the 32-bit float physical type and
\* Float16 to the 16-bit half-float physical type, in each of the three
\* positions, by the schema and by the builder.
C23_SixteenBitLowering ==
    SixteenBitFormat # "none" =>
        LET physical == IF SixteenBitFormat = "kBFloat16" THEN Arrow("float32") ELSE Arrow("float16")
        IN  /\ GetArrowTypeCalled => Leaf(arrow_type.type) = physical
            /\ BuildArrowArrayCalled => Leaf(array_builder.type) = physical

C23_Witness ==
    /\ lowered_column.type = "kTensor"
    /\ lowered_column.elem = "kElemBFloat16"
    /\ GetArrowTypeCalled
    /\ BuildArrowArrayCalled
    /\ Leaf(arrow_type.type) = Arrow("float32")

\* The number of variable-length lists around the fixed-size list.
Nesting(type) ==
    CASE type = "kEmbedding" -> 0
      [] type \in {"kMultiVector", "kTensor"} -> 1
      [] type = "kTensorArray" -> 2

\* What C24 states of a lowered type: for a column of the vector family
\* with dimension d, under the type's number of variable-length lists
\* (0, 1, 1, 2) there is the fixed-size list of d scalar elements that the
\* embedding of the same element type and dimension lowers to; a column of
\* any other logical type is lowered to no list at all.
VectorFamilyLowering(lowered) ==
    IF lowered_column.type \in VectorTypes
    THEN LET fixed == Unwrap(lowered.type, Nesting(lowered_column.type))
         IN  /\ lowered.fault = "none"
             /\ fixed.kind = "fixed_size_list"
             /\ fixed.list_size = lowered_column.dim
             /\ fixed.value_type.kind \notin {"list", "fixed_size_list", "struct", "nullptr"}
             /\ fixed = GetArrowType([lowered_column EXCEPT !.type = "kEmbedding"]).type
    ELSE lowered.type.kind \notin {"list", "fixed_size_list"}

\* C24: for every element type and dimension d the vector family lowers to
\* the same fixed-size list of d elements wrapped in 0 (embedding), 1
\* (multi-vector, tensor) or 2 (tensor-array) variable-length lists, in the
\* schema and in the builder, and no other logical type is lowered so.
C24_VectorNesting ==
    /\ GetArrowTypeCalled => VectorFamilyLowering(arrow_type)
    /\ BuildArrowArrayCalled => VectorFamilyLowering(array_builder)

C24_Witness ==
    /\ lowered_column.type = "kTensorArray"
    /\ lowered_column.dim = MaxDimension
    /\ GetArrowTypeCalled
    /\ BuildArrowArrayCalled
    /\ arrow_type.type.value_type.value_type.kind = "fixed_size_list"

\* C25: for a sparse column of element type bit the schema field and the
\* builder are a structure of the index list only and the builder is
\* constructed without fault; for every other element type both are a
\* structure of the index list and the value list.
C25_SparseStructure ==
    lowered_column.type = "kSparse" =>
        LET names == IF lowered_column.elem = "kElemBit" THEN <<"index">> ELSE <<"index", "value">>
        IN  /\ GetArrowTypeCalled => FieldNames(arrow_type.type) = names
            /\ BuildArrowArrayCalled =>
                  /\ array_builder.fault = "none"
                  /\ ~array_builder.undefined
                  /\ FieldNames(array_builder.type) = names

\* The logical types C26 lists as not exportable.
C26_Listed ==
    {"kRowID", "kInterval", "kHugeInt", "kDecimal", "kArray", "kTuple", "kPoint", "kLine",
     "kLineSeg", "kBox", "kCircle", "kUuid", "kMixed", "kNull", "kMissing", "kEmptyArray",
     "kInvalid"}

\* C26: for every logical type that is not exportable GetArrowType and
\* BuildArrowArray raise an unrecoverable error and yield no field and no
\* array; for every other logical type GetArrowType yields a field without
\* an error.
C26_NonExportableRaise ==
    /\ GetArrowTypeCalled =>
          IF lowered_column.type \in C26_Listed
          THEN arrow_type.fault = "unrecoverable" /\ arrow_type.type = nullptr
          ELSE arrow_type.fault = "none" /\ arrow_type.type # nullptr
    /\ BuildArrowArrayCalled /\ lowered_column.type \in C26_Listed =>
          array_builder.fault = "unrecoverable" /\ array_builder.type = nullptr

C26_Witness ==
    /\ lowered_column.type = "kUuid"
    /\ arrow_type.fault = "unrecoverable"
    /\ array_builder.fault = "unrecoverable"

\* C39: for every supported scalar logical type and for every logical type
\* of the vector family with every element type, the physical type of the
\* builder BuildArrowArray creates equals the physical type GetArrowType
\* returns for the same column definition, none of the two raising.
C39_BuilderMatchesSchema ==
    (GetArrowTypeCalled /\ BuildArrowArrayCalled
     /\ lowered_column.type \in DOMAIN ScalarTypes \cup VectorTypes) =>
        /\ arrow_type.fault = "none"
        /\ array_builder.fault = "none"
        /\ ~array_builder.undefined
        /\ arrow_type.type # nullptr
        /\ array_builder.type = arrow_type.type

C39_Witness ==
    /\ lowered_column.type = "kMultiVector"
    /\ lowered_column.elem = "kElemUInt8"
    /\ GetArrowTypeCalled
    /\ BuildArrowArrayCalled
    /\ Leaf(array_builder.type) = Arrow("uint8")

\* ----------------------------------------------- the handler's claims
KeysOf(keys) == { keys[i] : i \in DOMAIN keys }

\* C40: HandleReadResult returns the result's object address unchanged when
\* the result is marked cached and raises an unrecoverable error naming the
\* object key when it is not; HandleWriteResult removes the object file of
\* every drop key and nothing else, whatever the persist keys.
C40_ResultHandling ==
    handled # NotHandled =>
        IF result.kind = "read"
        THEN IF result.cached_
             THEN handled.fault = "none" /\ handled.returned = result.obj_addr_
             ELSE /\ handled.fault = "unrecoverable"
                  /\ handled.returned = Nothing
                  /\ handled.message.args = <<result.obj_addr_.obj_key_>>
        ELSE /\ handled.fault = "none"
             /\ \A key \in KeysOf(result.drop_keys_) : GetObjPath(key) \notin persisted
             /\ \A path \in handled.before :
                   path \notin { GetObjPath(key) : key \in KeysOf(result.drop_keys_) }
                       => path \in persisted
             /\ persisted \subseteq handled.before

C40_Witness ==
    /\ result.kind = "write"
    /\ handled # NotHandled
    /\ result.persist_keys_ = <<"a">>
    /\ result.drop_keys_ = <<"b", "c">>
    /\ handled.before = { GetObjPath(key) : key \in ObjectKeys }
    /\ persisted = {GetObjPath("a")}

\* ------------------------------------------------- the content's claims
\* C21: in every sink a virtual column selector of the selected column list
\* is never used as a subscript of the catalog's column definition list
\* (header, per-row naming, schema construction, builder construction and
\* the raw-vector type validation included).
C21_NoVirtualLookup == looked_up \cap VirtualColumns = {}

\* The selected column list as the claims state it.
ExpectedSelection ==
    IF column_idx_array_ = <<>> THEN [i \in 1 .. Len(column_defs) |-> i - 1] ELSE column_idx_array_

ExpectedName(column_id) ==
    CASE column_id = COLUMN_IDENTIFIER_ROW_ID -> "_row_id"
      [] column_id = COLUMN_IDENTIFIER_CREATE -> "_create_timestamp"
      [] column_id = COLUMN_IDENTIFIER_DELETE -> "_delete_timestamp"
      [] OTHER -> column_defs[column_id + 1].name

\* The strings joined by sep and ended by a newline.
RECURSIVE Joined(_, _)
Joined(strings, sep) ==
    IF strings = <<>> THEN ""
    ELSE Head(strings) \o (IF Len(strings) = 1 THEN "\n" ELSE sep \o Joined(Tail(strings), sep))

RECURSIVE Concatenated(_)
Concatenated(strings) ==
    IF strings = <<>> THEN "" ELSE Head(strings) \o Concatenated(Tail(strings))

\* The logical types whose values the text encoding wraps in double quotes.
QuotedByRule(type) == type \in {"kEmbedding", "kMultiVector", "kTensor", "kTensorArray", "kSparse"}

\* The fields of a row's line, field i quoted where quoted[i].
Fields(row, quoted) ==
    [i \in 1 .. Len(ExpectedSelection) |->
        IF quoted[i]
        THEN "\"" \o GetValue(ExpectedSelection[i], row).text \o "\""
        ELSE GetValue(ExpectedSelection[i], row).text]

RulePattern(row) ==
    [i \in 1 .. Len(ExpectedSelection) |-> QuotedByRule(GetValue(ExpectedSelection[i], row).type)]

ExpectedLine(row) == Joined(Fields(row, RulePattern(row)), delimiter_)

ExpectedHeader ==
    Joined([i \in 1 .. Len(ExpectedSelection) |-> ExpectedName(ExpectedSelection[i])], delimiter_)

HasHeader(f) == file_type_ = "kCSV" /\ header_ /\ f.name = <<>>

\* What was appended to a file for its rows (after the header).
RowBytes(f) == IF HasHeader(f) /\ f.bytes # <<>> THEN Tail(f.bytes) ELSE f.bytes

ScenarioRows ==
    1 :> [block_map_ |-> BlockMap(<<2, 1>>), visible |-> RowOffsets(<<2, 1>>)]

TextScenario ==
    /\ file_type_ = "kCSV"
    /\ column_defs = <<IdColumn, NameColumn>>
    /\ column_idx_array_ = <<>>
    /\ header_
    /\ delimiter_ = ","
    /\ offset_ = 0
    /\ limit_ = 0
    /\ row_limit_ = 0
    /\ block_index_ = ScenarioRows
    /\ pc = "done"

AllBytes == ConcatMap(LAMBDA f : f.bytes, files)

\* C27: the delimited-text output is, when the header flag is on, one
\* header line of the selected column names (the synthetic names for the
\* virtual columns) joined by the delimiter and ended by a newline, before
\* the first row; then one line per emitted row, its fields joined by the
\* delimiter and ended by a newline; no header line when the flag is off.
\* For columns (id, name), rows (1,a), (2,b), (3,c) and delimiter ',' the
\* output is id,name\n1,a\n2,b\n3,c\n.
C27_DelimitedText ==
    file_type_ = "kCSV" /\ files # <<>> =>
        /\ Concatenated(AllBytes)
             = (IF header_ THEN ExpectedHeader ELSE "")
               \o Concatenated([k \in 1 .. Len(Emitted) |-> ExpectedLine(Emitted[k])])
        /\ \A n \in DOMAIN files :
              Len(files[n].bytes) = Len(FileRows(files[n])) + (IF HasHeader(files[n]) THEN 1 ELSE 0)
        /\ TextScenario => Concatenated(AllBytes) = "id,name\n1,a\n2,b\n3,c\n"

C27_Witness == TextScenario /\ Len(Emitted) = 3

\* C28: in the delimited-text output a field is wrapped in double quotes if
\* and only if its value's logical type is embedding, multi-vector, tensor,
\* tensor-array or sparse; every other value, text with the delimiter or a
\* newline in it included, is written as its plain text form.  (The only
\* choice of quoted fields that yields the line written is the rule's.)
C28_Quoting ==
    file_type_ = "kCSV" =>
        \A n \in DOMAIN files :
            \A k \in DOMAIN FileRows(files[n]) :
                LET row == FileRows(files[n])[k]
                IN  { quoted \in [1 .. Len(ExpectedSelection) -> BOOLEAN] :
                        RowBytes(files[n])[k] = Joined(Fields(row, quoted), delimiter_) }
                    = {RulePattern(row)}

C28_Witness ==
    /\ file_type_ = "kCSV"
    /\ column_defs[1] = NoteColumn
    /\ delimiter_ = ","
    /\ pc = "done"
    /\ Len(Emitted) >= 2

\* d as a 4-byte integer, least significant byte first.
FourBytes(d) ==
    <<d % 256, (d \div 256) % 256, (d \div (256 * 256)) % 256, (d \div (256 * 256 * 256)) % 256>>

\* C29: every raw flat-vector output file, the base file and each part
\* file, is the sequence of the records of the rows written to it, a record
\* being the column's declared dimension as a 4-byte integer followed by
\* the row's raw element bytes; there is no header and no trailer.
C29_RawRecords ==
    file_type_ = "kFVECS" /\ Len(column_idx_array_) = 1 /\ column_idx_array_[1] \notin VirtualColumns =>
        \A n \in DOMAIN files :
            LET rows == FileRows(files[n])
                exported == column_defs[column_idx_array_[1] + 1]
            IN  Flatten(files[n].bytes)
                  = Flatten([k \in 1 .. Len(rows) |->
                                FourBytes(exported.dim) \o GetEmbedding(exported, rows[k])])

C29_Witness ==
    /\ file_type_ = "kFVECS"
    /\ column_defs[1].dim = MaxDimension
    /\ column_idx_array_ = <<0>>
    /\ pc = "done"
    /\ Len(files) = 2
    /\ \A n \in DOMAIN files : FileRows(files[n]) # <<>>

\* The position of a row the visibility predicate is evaluated on.
EvaluatedPosition(row) == FilterPos(BlockEntry(row[1], row[2]).segment_offset, row[3])

\* The row identifier C30 states for a row: the segment, and the block
\* identifier times the block capacity plus the row's index.
StatedRowID(row) ==
    <<row[1], BlockEntry(row[1], row[2]).block_id * DEFAULT_BLOCK_CAPACITY + row[3]>>

\* The fields of a row's text line with the stated identifier in the row-id
\* fields.
StatedFields(row) ==
    [i \in 1 .. Len(ExpectedSelection) |->
        IF ExpectedSelection[i] = COLUMN_IDENTIFIER_ROW_ID
        THEN RowIDText(StatedRowID(row))
        ELSE Fields(row, RulePattern(row))[i]]

ValuePieces(column_id, row) ==
    IF column_id \in VirtualColumns
    THEN <<GetValue(column_id, row).text>>
    ELSE StoredPieces(ColumnDefAt(column_id), row)

Separator(i) == IF i # Len(ExpectedSelection) THEN delimiter_ ELSE "\n"

\* The pieces of a row's line and of the header line.
RowPieces(row) ==
    ConcatMap(LAMBDA i :
                  LET quote == IF RulePattern(row)[i] THEN <<"\"">> ELSE <<>>
                  IN  quote \o ValuePieces(ExpectedSelection[i], row) \o quote \o <<Separator(i)>>,
              [i \in 1 .. Len(ExpectedSelection) |-> i])

HeaderPieces ==
    ConcatMap(LAMBDA i : <<ExpectedName(ExpectedSelection[i]), Separator(i)>>,
              [i \in 1 .. Len(ExpectedSelection) |-> i])

\* The pieces of a file that has the header line if it is the base file,
\* and one line per row.
FilePieces(f) == (IF f.name = <<>> THEN HeaderPieces ELSE <<>>) \o ConcatMap(RowPieces, FileRows(f))

\* The number of lines of a text, each ended by a newline.
LineCount(pieces) == Cardinality({ i \in DOMAIN pieces : pieces[i] = "\n" })

\* The newlines inside the values of a row.
ValueNewlines(row) == LineCount(RowPieces(row)) - 1

RECURSIVE Sum(_)
Sum(q) == IF q = <<>> THEN 0 ELSE Head(q) + Sum(Tail(q))

\* In a text export with the header flag on, the base file holds the header
\* line and then the lines of its rows, and a part file the lines of its
\* rows only.
HeaderInBaseOnly ==
    \A n \in DOMAIN files :
        LET f == files[n]
            rows == FileRows(f)
        IN  /\ Concatenated(f.bytes) = Text(FilePieces(f))
            /\ Len(f.bytes) = Len(rows) + (IF f.name = <<>> THEN 1 ELSE 0)
            /\ f.name = <<>> => Head(f.bytes) = ExpectedHeader
            /\ f.name # <<>> => \A k \in DOMAIN rows : f.bytes[k] = ExpectedLine(rows[k])

\* C36, as stated: in a split text export with the header flag on the
\* header line is written once, to the base file only, and the line count
\* of every part file equals its row count and the one of the base file its
\* row count plus one.
C36_LineCountIsRowCount ==
    file_type_ = "kCSV" /\ header_ =>
        /\ HeaderInBaseOnly
        /\ \A n \in DOMAIN files :
              LineCount(FilePieces(files[n]))
                = Len(FileRows(files[n])) + (IF files[n].name = <<>> THEN 1 ELSE 0)

\* C36, amended: the header line is written once, to the base file only,
\* and every part file holds only the lines of its rows; the line count of
\* a part file is its row count, and the one of the base file its row count
\* plus one, plus the newlines inside the values of the file's rows (a text
\* value is written with its newlines).
C36_HeaderOnce ==
    file_type_ = "kCSV" /\ header_ =>
        /\ HeaderInBaseOnly
        /\ \A n \in DOMAIN files :
              LineCount(FilePieces(files[n]))
                = Len(FileRows(files[n])) + (IF files[n].name = <<>> THEN 1 ELSE 0)
                  + Sum([k \in DOMAIN FileRows(files[n]) |-> ValueNewlines(FileRows(files[n])[k])])

C36_Witness ==
    /\ file_type_ = "kCSV"
    /\ header_
    /\ column_defs[1] = NoteColumn
    /\ pc = "done"
    /\ Len(files) >= 2
    /\ \A n \in DOMAIN files : FileRows(files[n]) # <<>>

\* --------------------------------------------- rejected configurations
\* The steps that test the configuration.
ConfigurationSteps == {"column_count", "column_type", "element_type", "schema"}

\* The configuration passes every test of its sink.  (Nothing is said of a
\* selector outside the catalog: what the tests see then is not defined.)
ConfigurationAccepted ==
    CASE file_type_ = "kFVECS" ->
            /\ Len(column_idx_array_) = 1
            /\ ~OutOfBounds(column_idx_array_[1]) =>
                  /\ column_defs[column_idx_array_[1] + 1].type = "kEmbedding"
                  /\ column_defs[column_idx_array_[1] + 1].elem = "kElemFloat"
      [] file_type_ = "kPARQUET" ->
            \A i \in 1 .. Len(ExpectedSelection) :
                ~OutOfBounds(ExpectedSelection[i]) =>
                    column_defs[ExpectedSelection[i] + 1].type \notin C26_Listed
      [] OTHER -> TRUE

\* C37: in ExportToFVECS and ExportToPARQUET every test of the
\* configuration (column count, column type, element type, the schema
\* field of every selected column) is passed before the parent directory is
\* created and before a file is opened: a request rejected for its
\* configuration has created no directory and no file.
C37_ChecksBeforeEffects ==
    file_type_ \in {"kFVECS", "kPARQUET"} =>
        /\ (directories # {} \/ files # <<>>) => ConfigurationAccepted
        /\ fault.at \in ConfigurationSteps => directories = {} /\ files = <<>>
        /\ (pc \notin {"execute", "crashed"} /\ ~ConfigurationAccepted) =>
              fault.at \in ConfigurationSteps

C37_Witness ==
    /\ file_type_ = "kPARQUET"
    /\ column_defs = <<IdColumn, UuidColumn>>
    /\ column_idx_array_ = <<>>
    /\ pc = "failed"
    /\ fault = [kind |-> "unrecoverable", at |-> "schema"]
    /\ directories = {}

\* ------------------------------------------------- the columnar sink
\* ExportToPARQUET on its own: every request within the bounds over every
\* snapshot, on the table of one float embedding column.
InitColumnar ==
    /\ file_type_ = "kPARQUET"
    /\ Init

NextColumnar ==
    \/ ExportToPARQUET_Begin
    \/ SegmentLoopEnter
    \/ BlockLoopEnter
    \/ ConsumeBlockSkip
    \/ ConsumeBlockWrite
    \/ LabelReturn
    \/ ExecuteComplete

SpecColumnar == InitColumnar /\ [][NextColumnar]_vars

\* The record batches written to a file, one per WriteRecordBatch.
Batches(f) == f.writes

\* The number of rows written up to and including the row.
WrittenThrough(row) == IndexOf(Emitted, row)

\* The rows of the batch's block after the batch's last row are invisible:
\* the inner loop ran to the block's end.
EndsAtBlockEnd(batch) ==
    \A r \in Last(batch)[3] + 1 .. BlockEntry(Last(batch)[1], Last(batch)[2]).row_count - 1 :
        ~RowVisible(<<Last(batch)[1], Last(batch)[2], r>>)

EndsAtFileLimit(batch) == row_limit_ > 0 /\ WrittenThrough(Last(batch)) % row_limit_ = 0

EndsAtTotalLimit(batch) == WrittenThrough(Last(batch)) = limit_

\* The writers opened on a file: each writes the schema when opened.
WritersOpened(f) == Cardinality({ k \in DOMAIN f.bytes : "schema" \in DOMAIN f.bytes[k] })

\* C33: every record batch the columnar sink writes is non-empty, holds
\* rows of one block in ascending row order and lies in one file: it ends
\* at the block's end, at a per-file limit boundary or at the total row
\* limit and does not straddle a rotation (its rows are of the file's
\* window of the emitted rows); each output file gets one writer, which is
\* open while the file is the current one and closed from the rotation or
\* label_return on.
C33_RecordBatches ==
    pc # "execute" =>
        /\ \A n \in DOMAIN files :
              /\ WritersOpened(files[n]) = 1
              /\ files[n].open = (n = Len(files) /\ pc \notin {"returned", "done"})
              /\ \A m \in DOMAIN files : files[m].name = files[n].name => m = n
              /\ \A w \in DOMAIN Batches(files[n]) :
                    LET batch == Batches(files[n])[w]
                    IN  /\ batch # <<>>
                        /\ \A i, j \in DOMAIN batch :
                              i < j => /\ batch[i][1] = batch[j][1]
                                       /\ batch[i][2] = batch[j][2]
                                       /\ batch[i][3] < batch[j][3]
                        /\ \/ EndsAtBlockEnd(batch)
                           \/ EndsAtFileLimit(batch)
                           \/ EndsAtTotalLimit(batch)
                        /\ row_limit_ > 0 =>
                              /\ (WrittenThrough(batch[1]) - 1) \div row_limit_ = n - 1
                              /\ (WrittenThrough(Last(batch)) - 1) \div row_limit_ = n - 1

\* Two files of two batches and one: a batch that ended at its block's end
\* only, and one that the per-file limit ended inside its block.
C33_Witness ==
    /\ pc = "done"
    /\ row_limit_ = 2
    /\ Len(files) = 2
    /\ \E w \in DOMAIN Batches(files[1]) :
          /\ EndsAtFileLimit(Batches(files[1])[w])
          /\ ~EndsAtBlockEnd(Batches(files[1])[w])
    /\ \E w \in DOMAIN Batches(files[1]) :
          /\ EndsAtBlockEnd(Batches(files[1])[w])
          /\ ~EndsAtFileLimit(Batches(files[1])[w])
          /\ ~EndsAtTotalLimit(Batches(files[1])[w])

\* The rows already written fill the files opened so far.
FilesAreFull == row_limit_ > 0 /\ row_count > 0 /\ row_count % row_limit_ = 0

\* C34: in the columnar sink the deferred-rotation flag is carried across
\* block and segment boundaries: during the scan, in particular when a
\* non-empty batch is about to be written, switch_to_new_file is true
\* exactly when the number of rows written is positive and a multiple of
\* the per-file limit; a pass or block that contributes no row leaves the
\* flag as it is and opens no file (the files are the ones the rows
\* written need).
C34_DeferredRotation ==
    (file_type_ = "kPARQUET" /\ pc \in {"segment_loop", "block_loop", "consume_block"}) =>
        /\ switch_to_new_file = FilesAreFull
        /\ file_no_ = Len(files) - 1
        /\ Len(files) = IF row_limit_ = 0 \/ row_count = 0 THEN 1
                        ELSE CeilDiv(row_count, row_limit_)

\* A batch is about to be written in another segment than the last row
\* written, with the rotation deferred since then, over a row that
\* contributed nothing.
C34_Witness ==
    /\ file_type_ = "kPARQUET"
    /\ pc = "consume_block"
    /\ ~BatchIsEmpty(Batch.rows)
    /\ switch_to_new_file
    /\ Last(Emitted)[1] # CurrentSegment
    /\ ~RowVisible(Last(examined))

\* ---------------------------------------- the row-at-a-time algorithm
\* The loops of ExportToCSV, ExportToJSONL and ExportToFVECS over the rows
\* in scan order, as a function of the request and the snapshot: off is the
\* offset left, rc the row count, fno the part number and out the files so
\* far with the rows appended to each.
RECURSIVE RowAtATime(_, _, _, _, _)
RowAtATime(rows, off, rc, fno, out) ==
    IF rows = <<>> THEN [files |-> out, row_count |-> rc]
    ELSE IF ~RowVisible(Head(rows)) THEN RowAtATime(Tail(rows), off, rc, fno, out)
    ELSE IF off > 0 THEN RowAtATime(Tail(rows), off - 1, rc, fno, out)
    ELSE LET part == rc > 0 /\ row_limit_ # 0 /\ (rc % row_limit_) = 0
             appended ==
                 IF part
                 THEN Append(out, [name |-> <<fno + 1>>, rows |-> <<Head(rows)>>])
                 ELSE [out EXCEPT ![Len(out)].rows = Append(@, Head(rows))]
         IN  IF limit_ # 0 /\ rc + 1 = limit_
             THEN [files |-> appended, row_count |-> rc + 1]
             ELSE RowAtATime(Tail(rows), off, rc + 1, IF part THEN fno + 1 ELSE fno, appended)

RowAtATimeExport == RowAtATime(ScanOrder, offset_, 0, 0, <<[name |-> <<>>, rows |-> <<>>]>>)

\* The files of the export: the name and the rows of each.
Layout == [n \in DOMAIN files |-> [name |-> files[n].name, rows |-> FileRows(files[n])]]

\* C35: for the same snapshot, column list, offset, limit and per-file
\* limit ExportToPARQUET emits the rows the row-at-a-time sinks emit, in the
\* same order, creates the files they create, assigns the same rows to each
\* file and returns the same row count: the result of each of the four
\* sinks is the one of the row-at-a-time loops.
C35_SameAsRowSinks ==
    pc = "done" =>
        /\ Layout = RowAtATimeExport.files
        /\ exported_row_count = RowAtATimeExport.row_count

\* A columnar export of two files that passed an offset and an invisible
\* row, wrote two rows of one block to two files and reached the total
\* limit.
C35_Witness ==
    /\ pc = "done"
    /\ file_type_ = "kPARQUET"
    /\ Len(files) = 2
    /\ offset_ > 0
    /\ limit_ = exported_row_count
    /\ SomeInvisibleExamined
    /\ Last(FileRows(files[1]))[1] = FileRows(files[2])[1][1]
    /\ Last(FileRows(files[1]))[2] = FileRows(files[2])[1][2]

\* ------------------------------------------------ Execute called again
\* The requests whose export reads the catalog inside its bounds and whose
\* configuration the sink accepts.
DefinedRequest ==
    CASE file_type_ = "kFVECS" ->
            /\ Len(column_idx_array_) = 1
            /\ ~OutOfBounds(column_idx_array_[1])
            /\ StepFault("column_type", "none") = "none"
            /\ StepFault("element_type", "none") = "none"
      [] file_type_ = "kPARQUET" ->
            /\ \A i \in 1 .. Len(SelectColumns) : ~OutOfBounds(SelectColumns[i])
            /\ StepFault("schema", "none") = "none"
            /\ UndefinedArrays = {}
      [] OTHER -> TRUE

\* Every encoding with the tables and column lists of the content, the
\* requests of DefinedRequest.
InitRerun ==
    /\ file_type_ \in FileTypes
    /\ offset_ \in {0, MaxOffset}
    /\ limit_ \in {0, MaxLimit}
    /\ row_limit_ \in {0, MaxRowLimit}
    /\ \E c \in (IF file_type_ = "kFVECS" THEN VectorConfigs ELSE ContentConfigs) :
          /\ column_defs = c.defs
          /\ column_idx_array_ = c.idx
    /\ block_index_ \in ContentSnapshots
    /\ header_ \in IF file_type_ = "kCSV" THEN BOOLEAN ELSE {FALSE}
    /\ delimiter_ \in IF file_type_ = "kCSV" THEN {",", "|"} ELSE {","}
    /\ lowered_column = FloatEmbedding
    /\ InitRun
    /\ HandlerIdle
    /\ DefinedRequest

\* What an Execute that has completed leaves to be seen.
Outcome ==
    [files |-> files, exported_row_count |-> exported_row_count, result_msg_ |-> result_msg_,
     examined |-> examined, materialized |-> materialized, visited |-> visited,
     budgets |-> [offset |-> offset_, limit |-> limit_, row_limit |-> row_limit_]]

\* Execute is called a second time on the operator, with an operator state
\* of its own: the members are as the first call left them, Execute's
\* local starts at 0 and the sink initialises its locals; the files are the
\* ones this call opens.
ExecuteAgain ==
    /\ pc = "done"
    /\ previous = <<>>
    /\ previous' = <<Outcome>>
    /\ Goto(Pos("execute", 1, 0, 0))
    /\ files' = <<>>
    /\ examined' = <<>>
    /\ materialized' = <<>>
    /\ visited' = <<>>
    /\ called' = <<>>
    /\ directories' = {}
    /\ looked_up' = {}
    /\ exported_row_count' = 0
    /\ result_msg_' = <<>>
    /\ complete' = FALSE
    /\ UNCHANGED <<request, lowering, persistence, locals, fault>>

NextRerun ==
    \/ Next
    \/ ExecuteAgain

SpecRerun == InitRerun /\ [][NextRerun]_vars

\* C31: two runs of the same export request against the same snapshot
\* produce the same files, by name and in creation order, with the same
\* contents, and the same row count and result message.
C31_SameOutcome ==
    (previous # <<>> /\ pc = "done") =>
        /\ files = previous[1].files
        /\ exported_row_count = previous[1].exported_row_count
        /\ result_msg_ = previous[1].result_msg_

\* The second of two runs that wrote part files, with rows in each.
C31_Witness ==
    /\ previous # <<>>
    /\ pc = "done"
    /\ Len(files) >= 2
    /\ \A n \in DOMAIN files : files[n].bytes # <<>> /\ FileRows(files[n]) # <<>>
    /\ exported_row_count >= 2

\* The second call has scanned what the first one scanned, with the
\* budgets the first one had.
SameScan ==
    previous # <<>> =>
        /\ previous[1].budgets = [offset |-> offset_, limit |-> limit_, row_limit |-> row_limit_]
        /\ (pc = "segment_loop" /\ visited = <<>>) =>
              /\ offset = previous[1].budgets.offset
              /\ row_count = 0
              /\ file_no_ = 0
        /\ pc = "done" =>
              /\ examined = previous[1].examined
              /\ materialized = previous[1].materialized
              /\ visited = previous[1].visited

\* C38: an export does not modify its request descriptor or the table
\* snapshot: no step of Execute changes offset_, limit_, row_limit_, the
\* column index list, the column definitions or a segment snapshot or block
\* entry (the offset is consumed from the local copy), so a second Execute
\* on the operator scans the same segments, blocks and rows with the same
\* budgets.
C38_RequestUnchanged ==
    /\ [][request' = request]_vars
    /\ []SameScan

\* The second call has completed after the first one and itself consumed
\* the offset and opened a part file.
C38_Witness ==
    /\ previous # <<>>
    /\ pc = "done"
    /\ offset_ > 0
    /\ offset = 0
    /\ Len(files) >= 2
    /\ Len(previous[1].files) >= 2
    /\ Len(examined) > exported_row_count

\* ------------------------------------------------ the scan's progress
\* The snapshots whose segments have all rows visible but, possibly, the
\* one at segment offset 0, or no visible row at all.
LiveSnapshots ==
    { f \in Snapshots : \A s \in DOMAIN f : MostlyVisible(f[s]) \/ f[s].visible = {} }

\* Every encoding value on the table of one float embedding column, over
\* the snapshots of LiveSnapshots, with offset_, limit_ and row_limit_ at
\* their extremes.
InitLive ==
    /\ file_type_ \in FileTypes \cup {"kInvalid"}
    /\ offset_ \in {0, MaxOffset}
    /\ limit_ \in {0, MaxLimit}
    /\ row_limit_ \in {0, MaxRowLimit}
    /\ column_defs = <<FloatEmbedding>>
    /\ column_idx_array_ = <<0>>
    /\ block_index_ \in LiveSnapshots
    /\ header_ = FALSE
    /\ delimiter_ = ","
    /\ lowered_column = FloatEmbedding
    /\ InitRun
    /\ HandlerIdle

\* Execute runs on one thread, which goes on while it has a statement to
\* execute: a step is taken as long as one is possible.
SpecLive == InitLive /\ [][NextFault]_vars /\ WF_vars(NextFault)

\* The rows examined for visibility, in strictly ascending (segment id,
\* block position, row index) order, and the blocks and segments likewise.
SinglePass ==
    /\ \A i, j \in DOMAIN examined : i < j => LexLess(examined[i], examined[j])
    /\ \A i, j \in DOMAIN materialized : i < j => LexLess(materialized[i], materialized[j])
    /\ \A i, j \in DOMAIN visited : i < j => visited[i] < visited[j]
    /\ \A i \in DOMAIN examined :
          \E k \in DOMAIN materialized : materialized[k] = <<examined[i][1], examined[i][2]>>

Ended == pc \in {"done", "failed"}

\* C32: the scan is a single pass without backtracking that ends for every
\* snapshot: in every sink, the nested loops of consume_block included,
\* each row position of each visited block is examined for visibility at
\* most once and in ascending order, and the export reaches completion or
\* a fault.
C32_SinglePassEnds ==
    /\ []SinglePass
    /\ <>Ended

\* A columnar export has completed after several passes over a block, one
\* of them without a row, over invisible rows and two segments.
C32_Witness ==
    /\ pc = "done"
    /\ file_type_ = "kPARQUET"
    /\ row_limit_ > 0
    /\ Len(files) >= 2
    /\ Len(visited) = 2
    /\ examined = ScanOrder
    /\ SomeInvisibleExamined
    /\ Len(FileRows(files[1])) = row_limit_

====
